---- MODULE Spec2Model ----
\* ganted (ustclug/light-socks5): SOCKS5 proxy with a RADIUS-backed
\* authentication cache.  This module models
\*   - RadiusCredentials.Valid, the auth cache and its background sweeper
\*     (src/src/main.go), one action per atomic step of the Go code, and
\*   - Server.ServeConn of the bundled go-socks5 fork (src/unnamed/part_003).
EXTENDS Integers, Sequences, FiniteSets, TLC

\* ------------------------------------------------------------------ bounds
\* The wall clock runs from 0 to MaxTime ticks.
MaxTime == 2
\* GANTED_AUTH_CACHE_RETENTION, in clock ticks.
Retention == 2
\* Number of Valid calls of the sequential scenario.
MaxCalls == 3
\* access records written in the log-rotation scenario
MaxRecords == 3
\* hourly ticks of the cron schedule
MaxHours == 2
\* lines of a rotated log handed to parseLogFile
MaxLines == 2
\* rotated logs that can lie in the log directory when archiveLogs starts
MaxLogs == 3
\* Read and Write calls made on one ConnWrapper
MaxIO == 3

Users == {"alice"}
Passwords == {"pw1", "pw2"}
Conns == {"c1", "c2"}

\* ------------------------------------------------------------------ state
VARIABLES
    now,        \* wall clock (time.Now)
    cache,      \* RadiusCache.Map: function from the stored usernames to items
    radiusPw,   \* the password the RADIUS server currently accepts, per user
    call,       \* per connection: the locals of its RadiusCredentials.Valid call
    gc,         \* the locals of gcworker
    hist,       \* history: the completed Valid calls of the sequential scenario,
                \* or the set of the pairs RADIUS has accepted
    changedAt,  \* sequential scenario: time of the last password change at the server
    authMethods, \* Server.authMethods: the codes of the enabled authenticators
    conn,       \* per connection: the position and locals of its ServeConn
    accessLog,  \* the records written through Config.AccessLogger, in order
    serve,      \* the position of Server.Serve and the error it returned
    dir,        \* the log directory: function from file names to inodes
    data,       \* the content of each inode, a sequence of lines
    handles,    \* the *os.File values opened so far: inode and open/closed
    out,        \* accessLogger's output (log.Logger.out): a handle
    written,    \* the number of accessLogger.Printf calls made
    window,     \* per record: the run that was between rename and reopen, or 0
    hour,       \* the hourly ticks of the cron schedule so far
    run,        \* per cron goroutine: the position and locals of accounting()
    packets,    \* the Accounting-Requests sent, in order, with their answers
                \* and the run (ts) that sent them
    parsed      \* history: the rotated files parseLogFile has read, in order

cacheVars == <<now, cache, radiusPw, call, gc>>
seqVars == <<hist, changedAt>>
serveVars == <<authMethods, conn, accessLog, serve>>
logVars == <<dir, data, handles, out, written, window, hour, run>>
pipeVars == <<logVars, packets, parsed>>
vars == <<now, cache, radiusPw, call, gc, hist, changedAt,
          authMethods, conn, accessLog, serve, dir, data, handles, out, written, window,
          hour, run, packets, parsed>>

\* RadiusCacheItem{} : the zero value a failed Load leaves in `item`
ZeroItem == [Password |-> "", LastUsed |-> 0]

RadiusCacheItem(password, t) == [Password |-> password, LastUsed |-> t]

IdleCall ==
    [pc |-> "idle", username |-> "", password |-> "", ok |-> FALSE,
     item |-> ZeroItem, tCheck |-> 0, sent |-> FALSE,
     answer |-> "", result |-> FALSE, wrote |-> FALSE]

IdleGc == [pc |-> "wait", keys |-> {}, key |-> ""]

\* ------------------------------------------------------- pure functions
\* RadiusCache.isExpired: time.Since(item.LastUsed) >= c.Retention
isExpired_strict(item, t) == t - item.LastUsed > Retention

isExpired(item, t) == t - item.LastUsed >= Retention

\* the condition of the cache-hit branch of Valid
CacheHit_noPassword(ok, item, password, t) == ok /\ ~isExpired(item, t)

CacheHit_noExpiry(ok, item, password, t) == ok /\ item.Password = password

CacheHit(ok, item, password, t) ==
    ok /\ item.Password = password /\ ~isExpired(item, t)

\* response.Code == radius.CodeAccessAccept, after err == nil
IsAccept_anyResponse(answer) == answer # "Error"

IsAccept(answer) == answer = "Accept"

\* sync.Map.Store / sync.Map.Delete
MapStore(m, k, v) == [x \in DOMAIN m \cup {k} |-> IF x = k THEN v ELSE m[x]]

MapDelete(m, k) == [x \in DOMAIN m \ {k} |-> m[x]]

\* What radius.Exchange can return for an Access-Request: a transport error,
\* Access-Accept when the password is the server's, otherwise Access-Reject
\* or another code (Access-Challenge).
Answers(u, p, lossy) ==
    (IF p = radiusPw[u] THEN {"Accept"} ELSE {"Reject", "Challenge"})
        \cup (IF lossy THEN {"Error"} ELSE {})

\* ------------------------------------------------------ SOCKS5 constants
socks5Version == 5
NoAuth == 0
UserPassAuth == 2
noAcceptable == 255
userAuthVersion == 1
ConnectCommand == 1
BindCommand == 2
AssociateCommand == 3
ipv4Address == 1
fqdnAddress == 3
ipv6Address == 4
successReply == 0
ruleFailure == 2
networkUnreachable == 3
hostUnreachable == 4
connectionRefused == 5
commandNotSupported == 7
addrTypeNotSupported == 8
NoReply == -1
NoCall == -1
NoMethod == -1

\* Addresses are two bits wide in both families.
IPs == [fam : {4, 6}, addr : 0..3]
NoIP == [fam |-> 0, addr |-> 0]

\* GANTED_ACL as decoded by ACL.Set: the prefixes 4:10/1 and 6:01/2
ServerACL == {[fam |-> 4, base |-> 2, len |-> 1], [fam |-> 6, base |-> 1, len |-> 2]}

\* the number of addresses a prefix of length len leaves free
HostPart(len) == IF len = 0 THEN 4 ELSE IF len = 1 THEN 2 ELSE 1

\* net.IPNet.Contains: the first len bits agree
Contains(n, ip) ==
    /\ n.fam = ip.fam
    /\ ip.addr \div HostPart(n.len) = n.base \div HostPart(n.len)

\* netallow.BasicNet.Permitted
Permitted(ip) == \E n \in ServerACL : Contains(n, ip)

\* ACL.Allow
Allow_anyDestination(cmd, ip) ==
    IF cmd # ConnectCommand THEN FALSE ELSE TRUE

Allow(cmd, ip) ==
    IF cmd # ConnectCommand THEN FALSE
    ELSE IF ~Permitted(ip) THEN FALSE
    ELSE TRUE

\* the socks5.Config main() passes to socks5.New
MainConfig == [AuthMethods |-> {}, Credentials |-> TRUE]

\* socks5.New: the authenticators of the server, by code
New_alsoNoAuth(conf) ==
    IF conf.AuthMethods = {}
    THEN IF conf.Credentials THEN {NoAuth, UserPassAuth} ELSE {NoAuth}
    ELSE conf.AuthMethods

New(conf) ==
    IF conf.AuthMethods = {}
    THEN IF conf.Credentials THEN {UserPassAuth} ELSE {NoAuth}
    ELSE conf.AuthMethods

\* NewRequest: the error it returns for a request header (ver, cmd, rsv) and
\* address type; "" is success.
NewRequest(readOk, ver, atyp) ==
    IF ~readOk THEN "read"
    ELSE IF ver # socks5Version THEN "version"
    ELSE IF atyp \notin {ipv4Address, fqdnAddress, ipv6Address}
         THEN "unrecognizedAddrType"
    ELSE ""

\* the literal destination of a request (NoIP for a domain name)
DestIP(atyp, addr) ==
    IF atyp = ipv4Address THEN [fam |-> 4, addr |-> addr]
    ELSE IF atyp = ipv6Address THEN [fam |-> 6, addr |-> addr]
    ELSE NoIP

Outcome(reply, ip, err) == [reply |-> reply, ip |-> ip, err |-> err]

\* Server.handleRequest up to the reply: command gating, name resolution,
\* rule set, dial.  resolved is the resolver's answer for a domain name (NoIP:
\* resolution failed), dial the result of dialing the destination.
handleRequest_rulesFirst(cmd, atyp, addr, resolved, dial) ==
    LET ip == IF atyp = fqdnAddress THEN resolved ELSE DestIP(atyp, addr)
    IN IF atyp = fqdnAddress /\ resolved = NoIP
           THEN Outcome(hostUnreachable, NoIP, "resolve")
       ELSE IF ~Allow(cmd, ip) THEN Outcome(ruleFailure, ip, "rules")
       ELSE IF cmd # ConnectCommand
           THEN Outcome(commandNotSupported, NoIP, "command")
       ELSE IF dial = "refused" THEN Outcome(connectionRefused, ip, "dial")
       ELSE IF dial = "unreachable" THEN Outcome(networkUnreachable, ip, "dial")
       ELSE Outcome(successReply, ip, "")

handleRequest(cmd, atyp, addr, resolved, dial) ==
    LET ip == IF atyp = fqdnAddress THEN resolved ELSE DestIP(atyp, addr)
    IN IF cmd # ConnectCommand
           THEN Outcome(commandNotSupported, NoIP, "command")
       ELSE IF atyp = fqdnAddress /\ resolved = NoIP
           THEN Outcome(hostUnreachable, NoIP, "resolve")
       ELSE IF ~Allow(cmd, ip) THEN Outcome(ruleFailure, ip, "rules")
       ELSE IF dial = "refused" THEN Outcome(connectionRefused, ip, "dial")
       ELSE IF dial = "unreachable" THEN Outcome(networkUnreachable, ip, "dial")
       ELSE Outcome(successReply, ip, "")

NoReq == [cmd |-> 0, atyp |-> 0, addr |-> 0]

\* what the client sent as request header: read completely?, version, atyp
NoHdr == [readOk |-> FALSE, ver |-> 0, atyp |-> 0]

\* a connection just accepted by Serve
NewConn ==
    [pc |-> "version", method |-> NoMethod, username |-> "", authErr |-> "",
     validated |-> FALSE, hdr |-> NoHdr, req |-> NoReq, ip |-> NoIP, reply |-> NoReply,
     dialed |-> FALSE, relayed |-> FALSE, err |-> "",
     ReadBytes |-> 0, WriteBytes |-> 0, up |-> 0, down |-> 0,
     rd |-> NoCall, wr |-> NoCall, connRead |-> 0, connWritten |-> 0, calls |-> 0,
     afterErr |-> FALSE]

\* Server.Serve inside its loop
AcceptLoop == [pc |-> "accept", err |-> ""]

Close(r, e) == [r EXCEPT !.pc = "closed", !.err = e]

\* ConnWrapper.Read / ConnWrapper.Write: n bytes went through the wrapper
Read_overwrite(r, n) == [r EXCEPT !.ReadBytes = n]

Read(r, n) == [r EXCEPT !.ReadBytes = @ + n]

Write(r, n) == [r EXCEPT !.WriteBytes = @ + n]

\* the byte counts one call of the underlying net.Conn may return (0 with an
\* error or at end of stream)
Chunks == {0, 1, 2}

\* bytes on the wire (RFC 1928 / RFC 1929): the method list after the version
\* byte, the USER/PASSWORD sub-negotiation, the request, the reply
GreetingLen(ms) == 1 + Len(ms)

UserPassLen(u, p) == 3 + Len(u) + Len(p)

FqdnName == "example.org"

AddrLen(atyp) ==
    IF atyp = ipv4Address THEN 4
    ELSE IF atyp = ipv6Address THEN 16
    ELSE 1 + Len(FqdnName)

\* what NewRequest has consumed when it returns
RequestLen(readOk, ver, atyp) ==
    IF ~readOk THEN 0
    ELSE IF ver # socks5Version THEN 3
    ELSE IF atyp \notin {ipv4Address, fqdnAddress, ipv6Address} THEN 4
    ELSE 4 + AddrLen(atyp) + 2

\* sendReply: ver, rep, rsv, atyp, bnd.addr, bnd.port (IPv4 zeros when there
\* is no bound address)
ReplyLen(ip) == 4 + (IF ip.fam = 6 THEN 16 ELSE 4) + 2

\* what a relay may transfer: client to upstream, upstream to client
UpBytes == {0, 13}

DownBytes == {0, 27}

\* ------------------------------------------------------ the log directory
\* file names: access.log, access-<ts>.log, archived-access-<date>.log(.zst)
LiveLog == [kind |-> "access.log", ts |-> 0]

Rotated(ts) == [kind |-> "access-.log", ts |-> ts]

\* the goroutines cron starts for the hourly job
Runs == {1, 2}

IdleRun ==
    [pc |-> "idle", ts |-> 0, file |-> 0, prev |-> 0, err |-> "",
     stats |-> <<>>, todo |-> {}, identity |-> "", sessionID |-> 0,
     logFiles |-> <<>>, k |-> 0, before |-> <<>>, archived |-> FALSE,
     alone |-> FALSE]

\* ------------------------------------------------- RadiusCredentials.Valid
\* entry: the caller invokes Valid(username, password)
CallValid(c, u, p) ==
    /\ call[c].pc = "idle"
    /\ call' = [call EXCEPT ![c] = [IdleCall EXCEPT !.pc = "load",
                                       !.username = u, !.password = p]]
    /\ UNCHANGED <<now, cache, radiusPw, gc>>

\* v, ok := r.Cache.Map.Load(username)
ValidLoad(c) ==
    /\ call[c].pc = "load"
    /\ LET u == call[c].username
           ok == u \in DOMAIN cache
       IN call' = [call EXCEPT ![c].pc = "check", ![c].ok = ok,
                               ![c].item = IF ok THEN cache[u] ELSE ZeroItem]
    /\ UNCHANGED <<now, cache, radiusPw, gc>>

\* if item.Password == password && !r.Cache.isExpired(&item)
ValidCheck_anyEntry(c) ==
    /\ call[c].pc = "check"
    /\ call' = [call EXCEPT
           ![c].pc = IF call[c].ok THEN "hit_store" ELSE "exchange",
           ![c].tCheck = now]
    /\ UNCHANGED <<now, cache, radiusPw, gc>>

ValidCheck(c) ==
    /\ call[c].pc = "check"
    /\ call' = [call EXCEPT
           ![c].pc = IF CacheHit(call[c].ok, call[c].item, call[c].password, now)
                     THEN "hit_store" ELSE "exchange",
           ![c].tCheck = now]
    /\ UNCHANGED <<now, cache, radiusPw, gc>>

\* r.updateCache(username, password); return true   (cache-hit branch)
ValidHitStore_noRefresh(c) ==
    /\ call[c].pc = "hit_store"
    /\ call' = [call EXCEPT ![c].pc = "done", ![c].result = TRUE]
    /\ UNCHANGED <<now, cache, radiusPw, gc>>

ValidHitStore(c) ==
    /\ call[c].pc = "hit_store"
    /\ cache' = MapStore(cache, call[c].username,
                         RadiusCacheItem(call[c].password, now))
    /\ call' = [call EXCEPT ![c].pc = "done", ![c].result = TRUE,
                            ![c].wrote = TRUE]
    /\ UNCHANGED <<now, radiusPw, gc>>

\* radius.Exchange(...) and the two tests on its outcome
ValidExchange_evict(c, lossy) ==
    /\ call[c].pc = "exchange"
    /\ \E a \in Answers(call[c].username, call[c].password, lossy) :
         /\ call' = [call EXCEPT ![c].sent = TRUE, ![c].answer = a,
                        ![c].pc = IF IsAccept(a) THEN "accept_store" ELSE "done",
                        ![c].result = FALSE]
         /\ cache' = IF IsAccept(a) THEN cache
                     ELSE MapDelete(cache, call[c].username)
    /\ UNCHANGED <<now, radiusPw, gc>>

ValidExchange(c, lossy) ==
    /\ call[c].pc = "exchange"
    /\ \E a \in Answers(call[c].username, call[c].password, lossy) :
         call' = [call EXCEPT ![c].sent = TRUE, ![c].answer = a,
                     ![c].pc = IF IsAccept(a) THEN "accept_store" ELSE "done",
                     ![c].result = FALSE]
    /\ UNCHANGED <<now, cache, radiusPw, gc>>

\* r.updateCache(username, password); return true   (Access-Accept branch)
ValidAcceptStore(c) ==
    /\ call[c].pc = "accept_store"
    /\ cache' = MapStore(cache, call[c].username,
                         RadiusCacheItem(call[c].password, now))
    /\ call' = [call EXCEPT ![c].pc = "done", ![c].result = TRUE,
                            ![c].wrote = TRUE]
    /\ UNCHANGED <<now, radiusPw, gc>>

\* the caller takes the result; the connection slot is free for the next call
ValidReturn(c) ==
    /\ call[c].pc = "done"
    /\ call' = [call EXCEPT ![c] = IdleCall]
    /\ UNCHANGED <<now, cache, radiusPw, gc>>

\* ------------------------------------------------------------- gcworker
\* a tick of the GC ticker: r.Cache.Map.Range starts over the stored keys
GcTick ==
    /\ gc.pc = "wait"
    /\ gc' = [pc |-> "range", keys |-> DOMAIN cache, key |-> ""]
    /\ UNCHANGED <<now, cache, radiusPw, call>>

\* one callback of Range: item := value; if isExpired(&item) ...
GcVisit_keepAll(k) ==
    /\ gc.pc = "range"
    /\ k \in gc.keys
    /\ gc' = [gc EXCEPT !.keys = @ \ {k}]
    /\ UNCHANGED <<now, cache, radiusPw, call>>

GcVisit(k) ==
    /\ gc.pc = "range"
    /\ k \in gc.keys
    /\ IF k \in DOMAIN cache /\ isExpired(cache[k], now)
       THEN gc' = [gc EXCEPT !.pc = "delete", !.key = k, !.keys = @ \ {k}]
       ELSE gc' = [gc EXCEPT !.keys = @ \ {k}]
    /\ UNCHANGED <<now, cache, radiusPw, call>>

\* r.Cache.Map.Delete(key)
GcDelete ==
    /\ gc.pc = "delete"
    /\ cache' = MapDelete(cache, gc.key)
    /\ gc' = [gc EXCEPT !.pc = "range", !.key = ""]
    /\ UNCHANGED <<now, radiusPw, call>>

\* Range has visited every key: back to waiting for the ticker
GcDone ==
    /\ gc.pc = "range"
    /\ gc.keys = {}
    /\ gc' = IdleGc
    /\ UNCHANGED <<now, cache, radiusPw, call>>

\* ---------------------------------------------------------- environment
Tick ==
    /\ now < MaxTime
    /\ now' = now + 1
    /\ UNCHANGED <<cache, radiusPw, call, gc>>

\* the operator of the RADIUS server changes a user's password
RadiusSetPassword(u, p) ==
    /\ radiusPw[u] # p
    /\ radiusPw' = [radiusPw EXCEPT ![u] = p]
    /\ UNCHANGED <<now, cache, call, gc>>

\* ------------------------------------------------ specification: the cache
\* Concurrent Valid calls of the connection goroutines, the sweeper, the
\* clock and the RADIUS server.
Init ==
    /\ now = 0
    /\ cache = <<>>
    /\ radiusPw \in [Users -> Passwords]
    /\ call = [c \in Conns |-> IdleCall]
    /\ gc = IdleGc
    /\ hist = <<>>
    /\ changedAt = -1
    /\ authMethods = New(MainConfig)
    /\ conn = [c \in Conns |-> NewConn]
    /\ accessLog = <<>>
    /\ serve = AcceptLoop
    /\ dir = (LiveLog :> 1)
    /\ data = <<(<<>>)>>
    /\ handles = <<[inode |-> 1, open |-> TRUE]>>
    /\ out = 1
    /\ written = 0
    /\ window = <<>>
    /\ hour = 0
    /\ run = [r \in Runs |-> IdleRun]
    /\ packets = <<>>
    /\ parsed = <<>>

NextCache ==
    \/ \E c \in Conns, u \in Users, p \in Passwords :
           CallValid(c, u, p) /\ UNCHANGED <<seqVars, serveVars, pipeVars>>
    \/ \E c \in Conns : ValidLoad(c) /\ UNCHANGED <<seqVars, serveVars, pipeVars>>
    \/ \E c \in Conns : ValidCheck(c) /\ UNCHANGED <<seqVars, serveVars, pipeVars>>
    \/ \E c \in Conns : ValidHitStore(c) /\ UNCHANGED <<seqVars, serveVars, pipeVars>>
    \/ \E c \in Conns, lossy \in BOOLEAN :
           ValidExchange(c, lossy) /\ UNCHANGED <<seqVars, serveVars, pipeVars>>
    \/ \E c \in Conns : ValidAcceptStore(c) /\ UNCHANGED <<seqVars, serveVars, pipeVars>>
    \/ \E c \in Conns : ValidReturn(c) /\ UNCHANGED <<seqVars, serveVars, pipeVars>>
    \/ GcTick /\ UNCHANGED <<seqVars, serveVars, pipeVars>>
    \/ \E k \in Users : GcVisit(k) /\ UNCHANGED <<seqVars, serveVars, pipeVars>>
    \/ GcDelete /\ UNCHANGED <<seqVars, serveVars, pipeVars>>
    \/ GcDone /\ UNCHANGED <<seqVars, serveVars, pipeVars>>
    \/ Tick /\ UNCHANGED <<seqVars, serveVars, pipeVars>>
    \/ \E u \in Users, p \in Passwords :
           RadiusSetPassword(u, p) /\ UNCHANGED <<seqVars, serveVars, pipeVars>>

SpecCache == Init /\ [][NextCache]_vars

\* ------------------------------- specification: the cache with its history
\* The scenario of SpecCache, with hist the set of the pairs (username,
\* password) that radius.Exchange has answered with Access-Accept.  Exchanges
\* that fail in transport take the branch of a rejection and are left out.
WasAccepted(u, p) == [username |-> u, password |-> p] \in hist

ValidExchangeRecorded(c) ==
    /\ ValidExchange(c, FALSE)
    /\ hist' = IF IsAccept(call'[c].answer)
               THEN hist \cup {[username |-> call[c].username,
                                  password |-> call[c].password]}
               ELSE hist
    /\ UNCHANGED changedAt

InitAudit ==
    /\ now = 0
    /\ cache = <<>>
    /\ radiusPw \in [Users -> Passwords]
    /\ call = [c \in Conns |-> IdleCall]
    /\ gc = IdleGc
    /\ hist = {}
    /\ changedAt = -1
    /\ authMethods = New(MainConfig)
    /\ conn = [c \in Conns |-> NewConn]
    /\ accessLog = <<>>
    /\ serve = AcceptLoop
    /\ dir = (LiveLog :> 1)
    /\ data = <<(<<>>)>>
    /\ handles = <<[inode |-> 1, open |-> TRUE]>>
    /\ out = 1
    /\ written = 0
    /\ window = <<>>
    /\ hour = 0
    /\ run = [r \in Runs |-> IdleRun]
    /\ packets = <<>>
    /\ parsed = <<>>

NextAudit ==
    \/ \E c \in Conns, u \in Users, p \in Passwords :
           CallValid(c, u, p) /\ UNCHANGED <<seqVars, serveVars, pipeVars>>
    \/ \E c \in Conns : ValidLoad(c) /\ UNCHANGED <<seqVars, serveVars, pipeVars>>
    \/ \E c \in Conns : ValidCheck(c) /\ UNCHANGED <<seqVars, serveVars, pipeVars>>
    \/ \E c \in Conns : ValidHitStore(c) /\ UNCHANGED <<seqVars, serveVars, pipeVars>>
    \/ \E c \in Conns : ValidExchangeRecorded(c) /\ UNCHANGED <<serveVars, pipeVars>>
    \/ \E c \in Conns : ValidAcceptStore(c) /\ UNCHANGED <<seqVars, serveVars, pipeVars>>
    \/ \E c \in Conns : ValidReturn(c) /\ UNCHANGED <<seqVars, serveVars, pipeVars>>
    \/ GcTick /\ UNCHANGED <<seqVars, serveVars, pipeVars>>
    \/ \E k \in Users : GcVisit(k) /\ UNCHANGED <<seqVars, serveVars, pipeVars>>
    \/ GcDelete /\ UNCHANGED <<seqVars, serveVars, pipeVars>>
    \/ GcDone /\ UNCHANGED <<seqVars, serveVars, pipeVars>>
    \/ Tick /\ UNCHANGED <<seqVars, serveVars, pipeVars>>
    \/ \E u \in Users, p \in Passwords :
           RadiusSetPassword(u, p) /\ UNCHANGED <<seqVars, serveVars, pipeVars>>

SpecAudit == InitAudit /\ [][NextAudit]_vars

\* ------------------------------- specification: one caller, call after call
\* One connection at a time validates alice; every call is short compared
\* with a clock tick, so the clock and the RADIUS server's password database
\* change between calls only.  hist records each completed call.
Caller == "c1"

SeqIdle == call[Caller].pc = "idle"

SeqCall(u, p) ==
    /\ Len(hist) < MaxCalls
    /\ CallValid(Caller, u, p)
    /\ UNCHANGED <<seqVars, serveVars, pipeVars>>

SeqReturn ==
    /\ call[Caller].pc = "done"
    /\ hist' = Append(hist,
          [t |-> now, password |-> call[Caller].password,
           sent |-> call[Caller].sent, result |-> call[Caller].result,
           accepted |-> (call[Caller].password = radiusPw[call[Caller].username])])
    /\ ValidReturn(Caller)
    /\ UNCHANGED <<changedAt, serveVars, pipeVars>>

SeqTick ==
    /\ SeqIdle
    /\ now < MaxTime
    /\ now' = now + 1
    /\ UNCHANGED <<cache, radiusPw, call, gc, hist, changedAt, serveVars, pipeVars>>

SeqSetPassword(u, p) ==
    /\ SeqIdle
    /\ RadiusSetPassword(u, p)
    /\ changedAt' = now
    /\ UNCHANGED <<hist, serveVars, pipeVars>>

NextSeq ==
    \/ \E u \in Users, p \in Passwords : SeqCall(u, p)
    \/ ValidLoad(Caller) /\ UNCHANGED <<seqVars, serveVars, pipeVars>>
    \/ ValidCheck(Caller) /\ UNCHANGED <<seqVars, serveVars, pipeVars>>
    \/ ValidHitStore(Caller) /\ UNCHANGED <<seqVars, serveVars, pipeVars>>
    \/ ValidExchange(Caller, FALSE) /\ UNCHANGED <<seqVars, serveVars, pipeVars>>
    \/ ValidAcceptStore(Caller) /\ UNCHANGED <<seqVars, serveVars, pipeVars>>
    \/ SeqReturn
    \/ GcTick /\ UNCHANGED <<seqVars, serveVars, pipeVars>>
    \/ \E k \in Users : GcVisit(k) /\ UNCHANGED <<seqVars, serveVars, pipeVars>>
    \/ GcDelete /\ UNCHANGED <<seqVars, serveVars, pipeVars>>
    \/ GcDone /\ UNCHANGED <<seqVars, serveVars, pipeVars>>
    \/ SeqTick
    \/ \E u \in Users, p \in Passwords : SeqSetPassword(u, p)

SpecSeq == Init /\ [][NextSeq]_vars

\* ------------------------------------ specification: the sweeper at work
\* One connection validates alice again and again while the clock and the
\* sweeper run.  The ticker of gcworker fires for as long as the process
\* runs and its goroutine is scheduled, so the steps of the sweeper are
\* weakly fair.
gcworker ==
    /\ \/ GcTick
       \/ \E k \in Users : GcVisit(k)
       \/ GcDelete
       \/ GcDone
    /\ UNCHANGED <<seqVars, serveVars, pipeVars>>

NextSweep ==
    \/ \E u \in Users, p \in Passwords :
           CallValid(Caller, u, p) /\ UNCHANGED <<seqVars, serveVars, pipeVars>>
    \/ ValidLoad(Caller) /\ UNCHANGED <<seqVars, serveVars, pipeVars>>
    \/ ValidCheck(Caller) /\ UNCHANGED <<seqVars, serveVars, pipeVars>>
    \/ ValidHitStore(Caller) /\ UNCHANGED <<seqVars, serveVars, pipeVars>>
    \/ \E lossy \in BOOLEAN :
           ValidExchange(Caller, lossy) /\ UNCHANGED <<seqVars, serveVars, pipeVars>>
    \/ ValidAcceptStore(Caller) /\ UNCHANGED <<seqVars, serveVars, pipeVars>>
    \/ ValidReturn(Caller) /\ UNCHANGED <<seqVars, serveVars, pipeVars>>
    \/ Tick /\ UNCHANGED <<seqVars, serveVars, pipeVars>>
    \/ gcworker

SpecSweep == Init /\ [][NextSweep]_vars /\ WF_vars(gcworker)

\* ------------------------------------------------------ Server.ServeConn
\* Read the version byte / Ensure we are compatible
ServeConnVersion(c) ==
    /\ conn[c].pc = "version"
    /\ \E readOk \in BOOLEAN, v \in {4, 5} :
         conn' = [conn EXCEPT ![c] =
                    IF ~readOk THEN Close(@, "version byte")
                    ELSE IF v # socks5Version
                        THEN Close(Read(@, 1), "unsupported version")
                    ELSE [Read(@, 1) EXCEPT !.pc = "methods"]]
    /\ UNCHANGED <<cacheVars, authMethods, accessLog, serve>>

\* Server.authenticate: read the advertised methods and select the first one
\* the server has an authenticator for; none: answer 05 FF.  The NO-AUTH
\* authenticator answers 05 00 and succeeds at once.
MethodLists == {<<>>, <<NoAuth>>, <<UserPassAuth>>, <<NoAuth, UserPassAuth>>,
                <<UserPassAuth, NoAuth>>}

Usable(ms) == {i \in 1..Len(ms) : ms[i] \in authMethods}

FirstUsable(ms) == ms[CHOOSE i \in Usable(ms) : \A j \in Usable(ms) : i <= j]

authenticate(c) ==
    /\ conn[c].pc = "methods"
    /\ \E ms \in MethodLists :
         conn' = [conn EXCEPT ![c] =
                    IF Usable(ms) = {}
                        THEN [Read(@, GreetingLen(ms)) EXCEPT
                                 !.pc = "authret", !.method = noAcceptable,
                                 !.authErr = "no supported method"]
                    ELSE IF FirstUsable(ms) = NoAuth
                        THEN [Read(@, GreetingLen(ms)) EXCEPT
                                 !.pc = "authret", !.method = NoAuth]
                    ELSE [Read(@, GreetingLen(ms)) EXCEPT
                             !.pc = "userpass", !.method = UserPassAuth]]
    /\ UNCHANGED <<cacheVars, authMethods, accessLog, serve>>

\* UserPassAuthenticator.Authenticate: answer 05 02, read {ver, ulen, uname,
\* plen, passwd} and ask the credential store
UserPassRead(c) ==
    /\ conn[c].pc = "userpass"
    /\ \E ver \in {0, userAuthVersion}, u \in Users, p \in Passwords :
         IF ver # userAuthVersion
         THEN /\ conn' = [conn EXCEPT ![c] =
                            [Read(@, 2) EXCEPT !.pc = "authret",
                                 !.authErr = "unsupported auth version"]]
              /\ UNCHANGED cacheVars
         ELSE /\ conn' = [conn EXCEPT ![c] =
                            [Read(@, UserPassLen(u, p)) EXCEPT
                                 !.pc = "valid", !.username = u]]
              /\ CallValid(c, u, p)
    /\ UNCHANGED <<authMethods, accessLog, serve>>

\* ... and answer {1, 0} when Valid returned true, {1, 1} and an error when not
UserPassResult(c) ==
    /\ conn[c].pc = "valid"
    /\ call[c].pc = "done"
    /\ conn' = [conn EXCEPT ![c].pc = "authret",
                    ![c].validated = call[c].result,
                    ![c].authErr = IF call[c].result THEN ""
                                   ELSE "user authentication failed"]
    /\ ValidReturn(c)
    /\ UNCHANGED <<authMethods, accessLog, serve>>

\* authContext, err := s.authenticate(conn, bufConn); if err != nil { return }
ServeConnAuthenticate_ignoreErr(c) ==
    /\ conn[c].pc = "authret"
    /\ conn' = [conn EXCEPT ![c].pc = "request"]
    /\ UNCHANGED <<cacheVars, authMethods, accessLog, serve>>

ServeConnAuthenticate(c) ==
    /\ conn[c].pc = "authret"
    /\ conn' = [conn EXCEPT ![c] =
                  IF @.authErr # "" THEN Close(@, "failed to authenticate")
                  ELSE [@ EXCEPT !.pc = "request"]]
    /\ UNCHANGED <<cacheVars, authMethods, accessLog, serve>>

\* request, err := NewRequest(bufConn) and the handling of its error;
\* reply is the code handed to sendReply
ServeConnNewRequest_replyAlways(c) ==
    /\ conn[c].pc = "request"
    /\ \E readOk \in BOOLEAN, ver \in {4, socks5Version},
          cmd \in {ConnectCommand, BindCommand, AssociateCommand},
          atyp \in 1..4, addr \in 0..3 :
         LET e == NewRequest(readOk, ver, atyp)
             h == [readOk |-> readOk, ver |-> IF readOk THEN ver ELSE 0,
                   atyp |-> IF readOk THEN atyp ELSE 0]
         IN conn' = [conn EXCEPT ![c] =
                IF e # ""
                    THEN Close([Write(Read(@, RequestLen(readOk, ver, atyp)),
                                      ReplyLen(NoIP))
                                  EXCEPT !.reply = addrTypeNotSupported, !.hdr = h],
                               "failed to read destination address")
                ELSE [Read(@, RequestLen(readOk, ver, atyp)) EXCEPT
                        !.pc = "handle", !.hdr = h,
                        !.req = [cmd |-> cmd, atyp |-> atyp,
                                 addr |-> IF atyp = fqdnAddress THEN 0 ELSE addr]]]
    /\ UNCHANGED <<cacheVars, authMethods, accessLog, serve>>

ServeConnNewRequest(c) ==
    /\ conn[c].pc = "request"
    /\ \E readOk \in BOOLEAN, ver \in {4, socks5Version},
          cmd \in {ConnectCommand, BindCommand, AssociateCommand},
          atyp \in 1..4, addr \in 0..3 :
         LET e == NewRequest(readOk, ver, atyp)
             h == [readOk |-> readOk, ver |-> IF readOk THEN ver ELSE 0,
                   atyp |-> IF readOk THEN atyp ELSE 0]
         IN conn' = [conn EXCEPT ![c] =
                IF e = "unrecognizedAddrType"
                    THEN Close([Write(Read(@, RequestLen(readOk, ver, atyp)),
                                      ReplyLen(NoIP))
                                  EXCEPT !.reply = addrTypeNotSupported, !.hdr = h],
                               "failed to read destination address")
                ELSE IF e # ""
                    THEN Close([Read(@, RequestLen(readOk, ver, atyp))
                                  EXCEPT !.hdr = h],
                               "failed to read destination address")
                ELSE [Read(@, RequestLen(readOk, ver, atyp)) EXCEPT
                        !.pc = "handle", !.hdr = h,
                        !.req = [cmd |-> cmd, atyp |-> atyp,
                                 addr |-> IF atyp = fqdnAddress THEN 0 ELSE addr]]]
    /\ UNCHANGED <<cacheVars, authMethods, accessLog, serve>>

\* if err := s.handleRequest(request, wrappedConn); err != nil { return err }
\* first part: handleRequest up to its reply
ServeConnHandleRequest_logOnError(c) ==
    /\ conn[c].pc = "handle"
    /\ \E resolved \in (IF conn[c].req.atyp = fqdnAddress THEN IPs ELSE {}) \cup {NoIP},
          dial \in {"ok", "refused", "unreachable"} :
         LET r == handleRequest(conn[c].req.cmd, conn[c].req.atyp,
                                conn[c].req.addr, resolved, dial)
         IN /\ conn' = [conn EXCEPT ![c] =
                   IF r.err # ""
                       THEN Close([Write(@, ReplyLen(NoIP)) EXCEPT
                                      !.reply = r.reply, !.ip = r.ip],
                                  "failed to handle request")
                   ELSE [Write(@, ReplyLen(r.ip)) EXCEPT
                            !.pc = "relay", !.reply = r.reply, !.ip = r.ip,
                            !.dialed = TRUE]]
            /\ accessLog' =
                   IF r.err # ""
                   THEN Append(accessLog,
                          [remote |-> c, username |-> conn[c].username,
                           dest |-> conn[c].req, read |-> conn[c].ReadBytes,
                           write |-> conn[c].WriteBytes])
                   ELSE accessLog
    /\ UNCHANGED <<cacheVars, authMethods, serve>>

ServeConnHandleRequest(c) ==
    /\ conn[c].pc = "handle"
    /\ \E resolved \in (IF conn[c].req.atyp = fqdnAddress THEN IPs ELSE {}) \cup {NoIP},
          dial \in {"ok", "refused", "unreachable"} :
         LET r == handleRequest(conn[c].req.cmd, conn[c].req.atyp,
                                conn[c].req.addr, resolved, dial)
         IN conn' = [conn EXCEPT ![c] =
                IF r.err # ""
                    THEN Close([Write(@, ReplyLen(NoIP)) EXCEPT
                                   !.reply = r.reply, !.ip = r.ip],
                               "failed to handle request")
                ELSE [Write(@, ReplyLen(r.ip)) EXCEPT
                         !.pc = "relay", !.reply = r.reply, !.ip = r.ip,
                         !.dialed = TRUE]]
    /\ UNCHANGED <<cacheVars, authMethods, accessLog, serve>>

\* second part: the relay between client and upstream moves R bytes up and W
\* bytes down through the wrapper and ends, with or without an error
ServeConnRelay_logOnError(c) ==
    /\ conn[c].pc = "relay"
    /\ \E ok \in BOOLEAN, R \in UpBytes, W \in DownBytes :
         conn' = [conn EXCEPT ![c] =
                    [Write(Read(@, R), W) EXCEPT
                        !.pc = "log", !.relayed = TRUE, !.up = R, !.down = W,
                        !.err = IF ok THEN "" ELSE "failed to handle request"]]
    /\ UNCHANGED <<cacheVars, authMethods, accessLog, serve>>

ServeConnRelay(c) ==
    /\ conn[c].pc = "relay"
    /\ \E ok \in BOOLEAN, R \in UpBytes, W \in DownBytes :
         conn' = [conn EXCEPT ![c] =
                    IF ok THEN [Write(Read(@, R), W) EXCEPT
                                   !.pc = "log", !.relayed = TRUE,
                                   !.up = R, !.down = W]
                    ELSE Close([Write(Read(@, R), W) EXCEPT
                                   !.relayed = TRUE, !.up = R, !.down = W],
                               "failed to handle request")]
    /\ UNCHANGED <<cacheVars, authMethods, accessLog, serve>>

\* log access: s.config.AccessLogger.Printf(...); return nil
ServeConnLog_twice(c) ==
    /\ conn[c].pc = "log"
    /\ LET rec == [remote |-> c, username |-> conn[c].username,
                   dest |-> conn[c].req,
                   read |-> conn[c].ReadBytes, write |-> conn[c].WriteBytes]
       IN accessLog' = Append(Append(accessLog, rec), rec)
    /\ conn' = [conn EXCEPT ![c] = Close(@, "")]
    /\ UNCHANGED <<cacheVars, authMethods, serve>>

ServeConnLog(c) ==
    /\ conn[c].pc = "log"
    /\ accessLog' = Append(accessLog,
          [remote |-> c, username |-> conn[c].username, dest |-> conn[c].req,
           read |-> conn[c].ReadBytes, write |-> conn[c].WriteBytes])
    /\ conn' = [conn EXCEPT ![c] = Close(@, "")]
    /\ UNCHANGED <<cacheVars, authMethods, serve>>

\* ------------------------------------- specification: serving connections
\* Every connection in Conns is served once, concurrently with the others;
\* the Valid calls of their sub-negotiations share the cache.  The clock
\* stands still while they are served.
Serving(c) == conn[c].pc = "valid"

NextServe ==
    \/ \E c \in Conns : ServeConnVersion(c) /\ UNCHANGED <<seqVars, pipeVars>>
    \/ \E c \in Conns : authenticate(c) /\ UNCHANGED <<seqVars, pipeVars>>
    \/ \E c \in Conns : UserPassRead(c) /\ UNCHANGED <<seqVars, pipeVars>>
    \/ \E c \in Conns : Serving(c) /\ ValidLoad(c) /\ UNCHANGED <<seqVars, serveVars, pipeVars>>
    \/ \E c \in Conns : Serving(c) /\ ValidCheck(c) /\ UNCHANGED <<seqVars, serveVars, pipeVars>>
    \/ \E c \in Conns : Serving(c) /\ ValidHitStore(c) /\ UNCHANGED <<seqVars, serveVars, pipeVars>>
    \/ \E c \in Conns, lossy \in BOOLEAN :
           Serving(c) /\ ValidExchange(c, lossy) /\ UNCHANGED <<seqVars, serveVars, pipeVars>>
    \/ \E c \in Conns : Serving(c) /\ ValidAcceptStore(c) /\ UNCHANGED <<seqVars, serveVars, pipeVars>>
    \/ \E c \in Conns : UserPassResult(c) /\ UNCHANGED <<seqVars, pipeVars>>
    \/ \E c \in Conns : ServeConnAuthenticate(c) /\ UNCHANGED <<seqVars, pipeVars>>
    \/ \E c \in Conns : ServeConnNewRequest(c) /\ UNCHANGED <<seqVars, pipeVars>>
    \/ \E c \in Conns : ServeConnHandleRequest(c) /\ UNCHANGED <<seqVars, pipeVars>>
    \/ \E c \in Conns : ServeConnRelay(c) /\ UNCHANGED <<seqVars, pipeVars>>
    \/ \E c \in Conns : ServeConnLog(c) /\ UNCHANGED <<seqVars, pipeVars>>

SpecServe == Init /\ [][NextServe]_vars

\* ------------------------------------------ specification: Server.Serve
\* The connections of Conns wait at the listener; Serve accepts them one by
\* one and starts a goroutine for each, until Accept fails.
\* a connection ServeConn has returned an error for
Failed(d) == conn[d].pc = "closed" /\ conn[d].err # ""

\* conn, err := l.Accept() without error; go s.ServeConn(conn)
Serve_inline(c) ==
    /\ serve.pc = "accept"
    /\ conn[c].pc = "accept"
    /\ IF \E d \in Conns : Failed(d)
       THEN /\ serve' = [pc |-> "returned", err |-> "ServeConn"]
            /\ UNCHANGED conn
       ELSE /\ conn' = [conn EXCEPT ![c].pc = "version"]
            /\ UNCHANGED serve
    /\ UNCHANGED <<cacheVars, authMethods, accessLog>>

Serve(c) ==
    /\ serve.pc = "accept"
    /\ conn[c].pc = "accept"
    /\ conn' = [conn EXCEPT ![c].pc = "version",
                            ![c].afterErr = \E d \in Conns : Failed(d)]
    /\ UNCHANGED <<cacheVars, authMethods, accessLog, serve>>

\* conn, err := l.Accept(); if err != nil { return err }
ServeAcceptError ==
    /\ serve.pc = "accept"
    /\ serve' = [pc |-> "returned", err |-> "accept"]
    /\ UNCHANGED <<cacheVars, authMethods, accessLog, conn>>

InitListen ==
    /\ now = 0
    /\ cache = <<>>
    /\ radiusPw \in [Users -> {"pw1"}]
    /\ call = [c \in Conns |-> IdleCall]
    /\ gc = IdleGc
    /\ hist = <<>>
    /\ changedAt = -1
    /\ authMethods = New(MainConfig)
    /\ conn = [c \in Conns |-> [NewConn EXCEPT !.pc = "accept"]]
    /\ accessLog = <<>>
    /\ serve = AcceptLoop
    /\ dir = (LiveLog :> 1)
    /\ data = <<(<<>>)>>
    /\ handles = <<[inode |-> 1, open |-> TRUE]>>
    /\ out = 1
    /\ written = 0
    /\ window = <<>>
    /\ hour = 0
    /\ run = [r \in Runs |-> IdleRun]
    /\ packets = <<>>
    /\ parsed = <<>>

NextListen ==
    \/ \E c \in Conns : Serve(c) /\ UNCHANGED <<seqVars, pipeVars>>
    \/ ServeAcceptError /\ UNCHANGED <<seqVars, pipeVars>>
    \/ NextServe

SpecListen == InitListen /\ [][NextListen]_vars

\* ------------------------------------------ specification: ConnWrapper
\* The two relay halves of each connection call Read and Write on its
\* wrapper concurrently; each call is the call of the embedded net.Conn
\* followed by the atomic addition.  connRead and connWritten sum what the
\* embedded net.Conn returned.
\* n, err := c.Conn.Read(b)
ConnRead(c) ==
    /\ conn[c].rd = NoCall
    /\ conn[c].calls < MaxIO
    /\ \E n \in Chunks :
         conn' = [conn EXCEPT ![c].rd = n, ![c].connRead = @ + n,
                              ![c].calls = @ + 1]
    /\ UNCHANGED <<cacheVars, authMethods, accessLog, serve>>

\* atomic.AddInt64(&c.ReadBytes, int64(n)); return n, err
ConnWrapperRead(c) ==
    /\ conn[c].rd # NoCall
    /\ conn' = [conn EXCEPT ![c] = [Read(@, conn[c].rd) EXCEPT !.rd = NoCall]]
    /\ UNCHANGED <<cacheVars, authMethods, accessLog, serve>>

\* n, err := c.Conn.Write(b)
ConnWrite(c) ==
    /\ conn[c].wr = NoCall
    /\ conn[c].calls < MaxIO
    /\ \E n \in Chunks :
         conn' = [conn EXCEPT ![c].wr = n, ![c].connWritten = @ + n,
                              ![c].calls = @ + 1]
    /\ UNCHANGED <<cacheVars, authMethods, accessLog, serve>>

\* atomic.AddInt64(&c.WriteBytes, int64(n)); return n, err
ConnWrapperWrite(c) ==
    /\ conn[c].wr # NoCall
    /\ conn' = [conn EXCEPT ![c] = [Write(@, conn[c].wr) EXCEPT !.wr = NoCall]]
    /\ UNCHANGED <<cacheVars, authMethods, accessLog, serve>>

NextWrapper ==
    \/ \E c \in Conns : ConnRead(c) /\ UNCHANGED <<seqVars, pipeVars>>
    \/ \E c \in Conns : ConnWrapperRead(c) /\ UNCHANGED <<seqVars, pipeVars>>
    \/ \E c \in Conns : ConnWrite(c) /\ UNCHANGED <<seqVars, pipeVars>>
    \/ \E c \in Conns : ConnWrapperWrite(c) /\ UNCHANGED <<seqVars, pipeVars>>

SpecWrapper == Init /\ [][NextWrapper]_vars

\* ------------------------------------------- access logger and rotation
\* log.Fatalf has ended the process
Exited == \E r \in Runs : run[r].pc = "exit"

\* run r, which began with no other run in progress and the logger writing to
\* access.log, has renamed access.log and has not yet given the logger its
\* new output
Reopening(r) ==
    /\ run[r].pc \in {"open", "prev", "set"}
    /\ run[r].alone
    /\ run[r].ts = hour

\* accessLogger.Printf: under the logger's mutex, one write of the whole line
\* to the current output; a write to a closed file fails and the line is lost
AccessLoggerPrintf_byName ==
    /\ ~Exited
    /\ written < MaxRecords
    /\ written' = written + 1
    /\ window' = Append(window,
                        IF \E r \in Runs : Reopening(r)
                        THEN run[CHOOSE r \in Runs : Reopening(r)].ts ELSE 0)
    /\ data' = IF LiveLog \in DOMAIN dir
               THEN [data EXCEPT ![dir[LiveLog]] = Append(@, written + 1)]
               ELSE data
    /\ UNCHANGED <<dir, handles, out, hour, run>>

AccessLoggerPrintf ==
    /\ ~Exited
    /\ written < MaxRecords
    /\ written' = written + 1
    /\ window' = Append(window,
                        IF \E r \in Runs : Reopening(r)
                        THEN run[CHOOSE r \in Runs : Reopening(r)].ts ELSE 0)
    /\ data' = IF handles[out].open
               THEN [data EXCEPT ![handles[out].inode] = Append(@, written + 1)]
               ELSE data
    /\ UNCHANGED <<dir, handles, out, hour, run>>

\* cron "@hourly": at the tick the job is started in a goroutine of its own
accountingCron(r) ==
    /\ hour < MaxHours
    /\ run[r].pc = "idle"
    /\ hour' = hour + 1
    /\ run' = [run EXCEPT ![r] =
                  [IdleRun EXCEPT !.pc = "rename", !.ts = hour + 1,
                       !.alone = /\ \A q \in Runs : run[q].pc = "idle"
                                 /\ LiveLog \in DOMAIN dir
                                 /\ handles[out].open
                                 /\ handles[out].inode = dir[LiveLog]]]
    /\ UNCHANGED <<dir, data, handles, out, written, window>>

\* os.Rename(accessLogFile, accountingLogFile)
accountingRename_keepLive(r) ==
    /\ run[r].pc = "rename"
    /\ IF LiveLog \in DOMAIN dir
       THEN /\ dir' = dir @@ (Rotated(run[r].ts) :> dir[LiveLog])
            /\ run' = [run EXCEPT ![r].pc = "open"]
       ELSE /\ run' = [run EXCEPT ![r].pc = "return", ![r].err = "rename"]
            /\ UNCHANGED dir
    /\ UNCHANGED <<data, handles, out, written, window, hour>>

accountingRename(r) ==
    /\ run[r].pc = "rename"
    /\ IF LiveLog \in DOMAIN dir
       THEN /\ dir' = [f \in (DOMAIN dir \ {LiveLog}) \cup {Rotated(run[r].ts)} |->
                         IF f = Rotated(run[r].ts) THEN dir[LiveLog] ELSE dir[f]]
            /\ run' = [run EXCEPT ![r].pc = "open"]
       ELSE /\ run' = [run EXCEPT ![r].pc = "return", ![r].err = "rename"]
            /\ UNCHANGED dir
    /\ UNCHANGED <<data, handles, out, written, window, hour>>

\* setFileLoggerOutput: os.OpenFile(filePath, O_CREATE|O_WRONLY|O_APPEND)
\* and, when it fails, log.Fatalf, which ends the process with all its
\* goroutines
setFileLoggerOutputOpen(r) ==
    /\ run[r].pc = "open"
    /\ \E ok \in BOOLEAN :
         IF ok
         THEN /\ IF LiveLog \in DOMAIN dir
                 THEN /\ handles' = Append(handles,
                                        [inode |-> dir[LiveLog], open |-> TRUE])
                      /\ UNCHANGED <<dir, data>>
                 ELSE /\ data' = Append(data, <<>>)
                      /\ dir' = dir @@ (LiveLog :> Len(data) + 1)
                      /\ handles' = Append(handles,
                                        [inode |-> Len(data) + 1, open |-> TRUE])
              /\ run' = [run EXCEPT ![r].pc = "prev", ![r].file = Len(handles) + 1]
         ELSE /\ run' = [q \in Runs |-> [run[q] EXCEPT !.pc = "exit"]]
              /\ UNCHANGED <<dir, data, handles>>
    /\ UNCHANGED <<out, written, window, hour>>

\* prevWriter := logger.Writer()
setFileLoggerOutputPrev_closeFirst(r) ==
    /\ run[r].pc = "prev"
    /\ run' = [run EXCEPT ![r].pc = "set", ![r].prev = out]
    /\ handles' = [handles EXCEPT ![out].open = FALSE]
    /\ UNCHANGED <<dir, data, out, written, window, hour>>

setFileLoggerOutputPrev(r) ==
    /\ run[r].pc = "prev"
    /\ run' = [run EXCEPT ![r].pc = "set", ![r].prev = out]
    /\ UNCHANGED <<dir, data, handles, out, written, window, hour>>

\* logger.SetOutput(file)
setFileLoggerOutputSet(r) ==
    /\ run[r].pc = "set"
    /\ out' = run[r].file
    /\ run' = [run EXCEPT ![r].pc = "close"]
    /\ UNCHANGED <<dir, data, handles, written, window, hour>>

\* closer.Close() on prevWriter
setFileLoggerOutputClose_current(r) ==
    /\ run[r].pc = "close"
    /\ handles' = [handles EXCEPT ![out].open = FALSE]
    /\ run' = [run EXCEPT ![r].pc = "parse"]
    /\ UNCHANGED <<dir, data, out, written, window, hour>>

setFileLoggerOutputClose(r) ==
    /\ run[r].pc = "close"
    /\ handles' = [handles EXCEPT ![run[r].prev].open = FALSE]
    /\ run' = [run EXCEPT ![r].pc = "parse"]
    /\ UNCHANGED <<dir, data, out, written, window, hour>>

\* the rest of accounting(): parseLogFile, sendAccountingData for every user,
\* archiveLogs; they take time and leave access.log and the logger alone
accountingRest(r) ==
    /\ run[r].pc = "parse"
    /\ run' = [run EXCEPT ![r].pc = "return"]
    /\ UNCHANGED <<dir, data, handles, out, written, window, hour>>

\* accounting() returns to the cron job, whose goroutine ends
accountingReturn(r) ==
    /\ run[r].pc = "return"
    /\ run' = [run EXCEPT ![r] = IdleRun]
    /\ UNCHANGED <<dir, data, handles, out, written, window, hour>>

\* the lines of the file named f
FileLines(f) == data[dir[f]]

\* ------------------------------------------------- parseLogFile
\* A Go int of the samples: hi * 2^32 + lo, with lo so small that sums of the
\* samples never carry.
GoInt(hi, lo) == [hi |-> hi, lo |-> lo]

AddInt(a, b) == GoInt(a.hi + b.hi, a.lo + b.lo)

\* strconv.Atoi on the tokens that occur in the sample lines
Decimal ==
    ("0" :> GoInt(0, 0) @@ "30" :> GoInt(0, 30) @@ "50" :> GoInt(0, 50) @@
     "100" :> GoInt(0, 100) @@ "200" :> GoInt(0, 200) @@
     "4294967296" :> GoInt(1, 0))

Atoi(t) ==
    IF t \in DOMAIN Decimal THEN [ok |-> TRUE, val |-> Decimal[t]]
    ELSE [ok |-> FALSE, val |-> GoInt(0, 0)]

\* A line is a sequence of tokens; the token " " is a run of white space.
\* strings.Fields
Fields(line) == SelectSeq(line, LAMBDA t : t # " ")

\* the words of a line joined by single blanks
RECURSIVE Join(_)
Join(words) ==
    IF Len(words) <= 1 THEN words
    ELSE <<Head(words), " ">> \o Join(Tail(words))

\* the line log.Logger writes for "%s %s %s %s %d %d" behind its date and
\* time prefix (log.LstdFlags)
AccessLine(user, r, w) ==
    Join(<<"2026/11/04", "01:00:00", "127.0.0.1:4000">> \o user
         \o <<"2026-11-04T01:00:00Z", "192.0.2.10:80", r, w>>)

\* sample lines: well-formed ones for two users, one of them with a count of
\* 2^32, one with a double blank; an empty user name (7 fields), a user name
\* with a blank (9 fields), a byte field that is no integer
LogLines ==
    {AccessLine(<<"alice">>, "100", "200"),
     <<" ">> \o AccessLine(<<"alice">>, "50", "30") \o <<" ">>,
     AccessLine(<<"bob">>, "4294967296", "0"),
     AccessLine(<<>>, "100", "200"),
     AccessLine(<<"al", "ice">>, "50", "30"),
     AccessLine(<<"alice">>, "1x", "200"),
     AccessLine(<<"bob">>, "50", "-")}

LogFiles == UNION {[1..n -> LogLines] : n \in 0..MaxLines}

\* stats[identity] += totalBytes
AddStat(stats, identity, totalBytes) ==
    IF identity \in DOMAIN stats
    THEN [stats EXCEPT ![identity] = AddInt(@, totalBytes)]
    ELSE stats @@ (identity :> totalBytes)

\* one turn of the scanner loop: the line is counted (TRUE, stats') or
\* skipped (FALSE, stats)
ScanLine(line, stats) ==
    LET fields == Fields(line)
    IN IF Len(fields) # 8 THEN <<FALSE, stats>>
       ELSE LET identity == fields[4]
                bytesIn == Atoi(fields[7])
                bytesOut == Atoi(fields[8])
            IN IF ~bytesIn.ok THEN <<FALSE, stats>>
               ELSE IF ~bytesOut.ok THEN <<FALSE, stats>>
               ELSE <<TRUE, AddStat(stats, identity,
                                    AddInt(bytesIn.val, bytesOut.val))>>

RECURSIVE ScanStop(_, _)
ScanStop(lines, stats) ==
    IF lines = <<>> THEN stats
    ELSE LET s == ScanLine(Head(lines), stats)
         IN IF s[1] THEN ScanStop(Tail(lines), s[2]) ELSE stats

RECURSIVE Scan(_, _)
Scan(lines, stats) ==
    IF lines = <<>> THEN stats
    ELSE Scan(Tail(lines), ScanLine(Head(lines), stats)[2])

\* parseLogFile: the map of the totals per identity
parseLogFile_stopAtMalformed(lines) == ScanStop(lines, <<>>)

parseLogFile(lines) == Scan(lines, <<>>)

\* ------------------------------------ accounting(): parse and emission
\* stats, err := parseLogFile(accountingLogFile)
accountingParse(r) ==
    /\ run[r].pc = "parse"
    /\ IF Rotated(run[r].ts) \in DOMAIN dir
       THEN /\ run' = [run EXCEPT ![r].pc = "range",
                       ![r].stats = parseLogFile(FileLines(Rotated(run[r].ts))),
                       ![r].todo = DOMAIN parseLogFile(FileLines(Rotated(run[r].ts)))]
            /\ parsed' = Append(parsed, [ts |-> run[r].ts,
                                         lines |-> FileLines(Rotated(run[r].ts))])
       ELSE /\ run' = [run EXCEPT ![r].pc = "return", ![r].err = "parse"]
            /\ UNCHANGED parsed
    /\ UNCHANGED <<dir, data, handles, out, written, window, hour, packets>>

\* for identity, bytes := range stats: the next identity, in any order, and
\* the first lines of sendAccountingData: sessionID from time.Now().Unix()
accountingRange_archiveFirst(r) ==
    /\ run[r].pc = "range"
    /\ \/ run' = [run EXCEPT ![r].pc = "archive"]
       \/ \E identity \in run[r].todo :
             run' = [run EXCEPT ![r].pc = "start", ![r].identity = identity,
                         ![r].todo = @ \ {identity}, ![r].sessionID = now]
    /\ UNCHANGED <<dir, data, handles, out, written, window, hour, packets, parsed>>

accountingRange(r) ==
    /\ run[r].pc = "range"
    /\ \/ /\ run[r].todo = {}
          /\ run' = [run EXCEPT ![r].pc = "archive"]
       \/ \E identity \in run[r].todo :
             run' = [run EXCEPT ![r].pc = "start", ![r].identity = identity,
                         ![r].todo = @ \ {identity}, ![r].sessionID = now]
    /\ UNCHANGED <<dir, data, handles, out, written, window, hour, packets, parsed>>

\* what radius.Exchange can return for an Accounting-Request
AcctAnswers == {"Response", "Other", "Error"}

\* the attribute conversion rfc2866.AcctOutputOctets(bytes): a uint32
AcctOutputOctets(bytes) == bytes.lo

\* the Start packet, its exchange and the two tests on the outcome
sendAccountingDataStart_ignoreReply(r) ==
    /\ run[r].pc = "start"
    /\ \E a \in AcctAnswers :
         /\ packets' = Append(packets,
                [status |-> "Start", user |-> run[r].identity,
                 session |-> run[r].sessionID, octets |-> -1, answer |-> a, ts |-> run[r].ts])
         /\ run' = [run EXCEPT ![r].pc = "stop"]
    /\ UNCHANGED <<dir, data, handles, out, written, window, hour, parsed>>

sendAccountingDataStart(r) ==
    /\ run[r].pc = "start"
    /\ \E a \in AcctAnswers :
         /\ packets' = Append(packets,
                [status |-> "Start", user |-> run[r].identity,
                 session |-> run[r].sessionID, octets |-> -1, answer |-> a, ts |-> run[r].ts])
         /\ run' = [run EXCEPT ![r].pc = IF a = "Response" THEN "stop" ELSE "range"]
    /\ UNCHANGED <<dir, data, handles, out, written, window, hour, parsed>>

\* the Stop packet with Acct-Output-Octets, and its exchange
sendAccountingDataStop_abort(r) ==
    /\ run[r].pc = "stop"
    /\ \E a \in AcctAnswers :
         /\ packets' = Append(packets,
                [status |-> "Stop", user |-> run[r].identity,
                 session |-> run[r].sessionID,
                 octets |-> AcctOutputOctets(run[r].stats[run[r].identity]),
                 answer |-> a, ts |-> run[r].ts])
         /\ run' = IF a = "Response" THEN [run EXCEPT ![r].pc = "range"]
                   ELSE [run EXCEPT ![r].pc = "return", ![r].err = "accounting"]
    /\ UNCHANGED <<dir, data, handles, out, written, window, hour, parsed>>

sendAccountingDataStop(r) ==
    /\ run[r].pc = "stop"
    /\ \E a \in AcctAnswers :
         packets' = Append(packets,
                [status |-> "Stop", user |-> run[r].identity,
                 session |-> run[r].sessionID,
                 octets |-> AcctOutputOctets(run[r].stats[run[r].identity]),
                 answer |-> a, ts |-> run[r].ts])
    /\ run' = [run EXCEPT ![r].pc = "range"]
    /\ UNCHANGED <<dir, data, handles, out, written, window, hour, parsed>>

\* archiveLogs(logDir, 24), whose steps are modelled separately
accountingArchive(r) ==
    /\ run[r].pc = "archive"
    /\ run' = [run EXCEPT ![r].pc = "return", ![r].archived = TRUE]
    /\ UNCHANGED <<dir, data, handles, out, written, window, hour, packets, parsed>>

\* -------------------------- specification: parsing and accounting emission
\* One run of accounting() from parseLogFile on, for every sample content of
\* the rotated log; the clock runs meanwhile.
InitAcct ==
    /\ now = 0
    /\ cache = <<>>
    /\ radiusPw \in [Users -> {"pw1"}]
    /\ call = [c \in Conns |-> IdleCall]
    /\ gc = IdleGc
    /\ hist = <<>>
    /\ changedAt = -1
    /\ authMethods = New(MainConfig)
    /\ conn = [c \in Conns |-> NewConn]
    /\ accessLog = <<>>
    /\ serve = AcceptLoop
    /\ dir = (Rotated(1) :> 1 @@ LiveLog :> 2)
    /\ \E file \in LogFiles : data = <<file, <<>>>>
    /\ handles = <<[inode |-> 1, open |-> FALSE], [inode |-> 2, open |-> TRUE]>>
    /\ out = 2
    /\ written = 0
    /\ window = <<>>
    /\ hour = 1
    /\ run = [r \in Runs |-> IF r = 1 THEN [IdleRun EXCEPT !.pc = "parse", !.ts = 1]
                                      ELSE IdleRun]
    /\ packets = <<>>
    /\ parsed = <<>>

NextAcct ==
    \/ accountingParse(1) /\ UNCHANGED <<cacheVars, seqVars, serveVars>>
    \/ accountingRange(1) /\ UNCHANGED <<cacheVars, seqVars, serveVars>>
    \/ sendAccountingDataStart(1) /\ UNCHANGED <<cacheVars, seqVars, serveVars>>
    \/ sendAccountingDataStop(1) /\ UNCHANGED <<cacheVars, seqVars, serveVars>>
    \/ accountingArchive(1) /\ UNCHANGED <<cacheVars, seqVars, serveVars>>
    \/ accountingReturn(1) /\ UNCHANGED <<cacheVars, seqVars, serveVars, packets, parsed>>
    \/ Tick /\ UNCHANGED <<seqVars, serveVars, pipeVars>>

SpecAcct == InitAcct /\ [][NextAcct]_vars

\* ---------------------------------------------------- archiveLogs
\* archiveLogs(logDir, maxBackup): the threshold, 24 in accounting(), scaled
\* down to 2
maxBackup == 2

\* time.Now().Format("20060102")
Date(h) == h \div 24

\* archived-access-<date>.log, the intermediate file, and its .zst
Archived(date) == [kind |-> "archived-access-.log", ts |-> date]

ArchivedZst(date) == [kind |-> "archived-access-.log.zst", ts |-> date]

\* a zstd frame: the magic number in front of the payload
ZstdMagic == <<"28b52ffd">>

Compress(lines) == <<ZstdMagic>> \o lines

Decompress(content) == Tail(content)

\* the names that match ^access-\d{14}\.log$, in ascending order (the order
\* of filepath.WalkDir, and of sort.Strings after it)
RECURSIVE SortStrings(_)
SortStrings(names) ==
    IF names = {} THEN <<>>
    ELSE LET first == CHOOSE f \in names : \A g \in names : f.ts <= g.ts
         IN <<first>> \o SortStrings(names \ {first})

findLogs == SortStrings({f \in DOMAIN dir : f.kind = "access-.log"})

\* os.Remove
Remove(f) == [g \in DOMAIN dir \ {f} |-> dir[g]]

\* findLogs and the test len(logFiles) >= maxBackup
archiveLogsFind_always(r) ==
    /\ run[r].pc = "archive"
    /\ run' = [run EXCEPT ![r].logFiles = findLogs,
                          ![r].before = [dir |-> dir, data |-> data],
                          ![r].pc = "stat"]
    /\ UNCHANGED <<dir, data, handles, out, written, window, hour, packets, parsed>>

archiveLogsFind(r) ==
    /\ run[r].pc = "archive"
    /\ run' = [run EXCEPT ![r].logFiles = findLogs,
                          ![r].before = [dir |-> dir, data |-> data],
                          ![r].pc = IF Len(findLogs) >= maxBackup
                                    THEN "stat" ELSE "return"]
    /\ UNCHANGED <<dir, data, handles, out, written, window, hour, packets, parsed>>

\* os.Stat(archiveFilePath + ".zst")
archiveLogsStat_skip(r) ==
    /\ run[r].pc = "stat"
    /\ run' = [run EXCEPT ![r].pc = "create"]
    /\ UNCHANGED <<dir, data, handles, out, written, window, hour, packets, parsed>>

archiveLogsStat(r) ==
    /\ run[r].pc = "stat"
    /\ run' = IF ArchivedZst(Date(hour)) \in DOMAIN dir
              THEN [run EXCEPT ![r].pc = "return", ![r].err = "file exists"]
              ELSE [run EXCEPT ![r].pc = "create"]
    /\ UNCHANGED <<dir, data, handles, out, written, window, hour, packets, parsed>>

\* os.Create(archiveFilePath): a new file, or the old one truncated
archiveLogsCreate(r) ==
    /\ run[r].pc = "create"
    /\ IF Archived(Date(hour)) \in DOMAIN dir
       THEN /\ data' = [data EXCEPT ![dir[Archived(Date(hour))]] = <<>>]
            /\ UNCHANGED dir
       ELSE /\ data' = Append(data, <<>>)
            /\ dir' = dir @@ (Archived(Date(hour)) :> Len(data) + 1)
    /\ run' = [run EXCEPT ![r].pc = "copy", ![r].k = 1]
    /\ UNCHANGED <<handles, out, written, window, hour, packets, parsed>>

\* one turn of the loop: os.Open(logFile), io.Copy(archiveFile, src); the
\* copy can fail (a full disk, a read error)
archiveLogsCopy(r) ==
    /\ run[r].pc = "copy"
    /\ run[r].k <= Len(run[r].logFiles)
    /\ IF run[r].logFiles[run[r].k] \in DOMAIN dir
       THEN \E ok \in BOOLEAN :
              IF ok
              THEN /\ data' = [data EXCEPT ![dir[Archived(Date(hour))]] =
                                   @ \o FileLines(run[r].logFiles[run[r].k])]
                   /\ run' = [run EXCEPT ![r].k = @ + 1]
              ELSE /\ run' = [run EXCEPT ![r].pc = "return", ![r].err = "copy"]
                   /\ UNCHANGED data
       ELSE /\ run' = [run EXCEPT ![r].pc = "return", ![r].err = "open"]
            /\ UNCHANGED data
    /\ UNCHANGED <<dir, handles, out, written, window, hour, packets, parsed>>

\* compressFile: os.Open and the os.Stat of the .zst
compressFileStat(r) ==
    /\ run[r].pc = "copy"
    /\ run[r].k > Len(run[r].logFiles)
    /\ run' = IF ArchivedZst(Date(hour)) \in DOMAIN dir
              THEN [run EXCEPT ![r].pc = "return", ![r].err = "file exists"]
              ELSE [run EXCEPT ![r].pc = "compress"]
    /\ UNCHANGED <<dir, data, handles, out, written, window, hour, packets, parsed>>

\* compressFile: os.Create of the .zst, io.Copy through the zstd writer,
\* zw.Close, os.Remove of the original; when the copy fails the .zst holds
\* an unfinished frame and the original stays
compressFile(r) ==
    /\ run[r].pc = "compress"
    /\ \E ok \in BOOLEAN :
         IF ok
         THEN /\ data' = Append(data, Compress(FileLines(Archived(Date(hour)))))
              /\ dir' = [f \in (DOMAIN dir \ {Archived(Date(hour))})
                                  \cup {ArchivedZst(Date(hour))} |->
                           IF f = ArchivedZst(Date(hour)) THEN Len(data) + 1
                           ELSE dir[f]]
              /\ run' = [run EXCEPT ![r].pc = "clean"]
         ELSE /\ data' = Append(data, <<ZstdMagic>>)
              /\ dir' = dir @@ (ArchivedZst(Date(hour)) :> Len(data) + 1)
              /\ run' = [run EXCEPT ![r].pc = "return", ![r].err = "compress"]
    /\ UNCHANGED <<handles, out, written, window, hour, packets, parsed>>

\* the last os.Stat(archiveFilePath) and its three branches: the file is
\* there (remove it, return nil); err == nil behind a failed first test,
\* which no result of os.Stat satisfies (remove the logs); anything else
archiveLogsClean(r) ==
    /\ run[r].pc = "clean"
    /\ IF Archived(Date(hour)) \in DOMAIN dir
       THEN /\ dir' = Remove(Archived(Date(hour)))
            /\ run' = [run EXCEPT ![r].pc = "return"]
       ELSE /\ run' = [run EXCEPT ![r].pc = "return",
                           ![r].err = "Unknown err when clear original log file"]
            /\ UNCHANGED dir
    /\ UNCHANGED <<data, handles, out, written, window, hour, packets, parsed>>

\* ------------------------------------------- specification: archiveLogs
\* One call of archiveLogs for every sample content of the log directory:
\* any of the rotated logs 1..MaxLogs, each with one of two contents, with or
\* without an intermediate file left behind and an archive of today.
LogContents == {<<AccessLine(<<"alice">>, "100", "200")>>,
                <<AccessLine(<<"bob">>, "50", "30")>>}

\* the directory that holds the files of the sequence fs of <<name, lines>>
RECURSIVE MkDir(_)
MkDir(fs) ==
    IF fs = <<>> THEN <<>>
    ELSE MkDir(SubSeq(fs, 1, Len(fs) - 1)) @@ (fs[Len(fs)][1] :> Len(fs))

RECURSIVE Listings(_)
Listings(t) ==
    IF t = 0 THEN {<<<<LiveLog, <<>>>>>>}
    ELSE LET rest == Listings(t - 1)
         IN rest \cup {Append(fs, <<Rotated(t), c>>) :
                           fs \in rest, c \in LogContents}

InitArchive ==
    /\ now = 0
    /\ cache = <<>>
    /\ radiusPw \in [Users -> {"pw1"}]
    /\ call = [c \in Conns |-> IdleCall]
    /\ gc = IdleGc
    /\ hist = <<>>
    /\ changedAt = -1
    /\ authMethods = New(MainConfig)
    /\ conn = [c \in Conns |-> NewConn]
    /\ accessLog = <<>>
    /\ serve = AcceptLoop
    /\ hour = 1
    /\ \E fs \in Listings(MaxLogs), tmp \in BOOLEAN, zst \in BOOLEAN :
         LET c == CHOOSE l \in LogContents : TRUE
             all == fs
                    \o (IF tmp THEN <<<<Archived(Date(hour)), c>>>> ELSE <<>>)
                    \o (IF zst THEN <<<<ArchivedZst(Date(hour)), Compress(c)>>>>
                        ELSE <<>>)
         IN /\ dir = MkDir(all)
            /\ data = [i \in 1..Len(all) |-> all[i][2]]
    /\ handles = <<[inode |-> 1, open |-> TRUE]>>
    /\ out = 1
    /\ written = 0
    /\ window = <<>>
    /\ run = [r \in Runs |-> IF r = 1 THEN [IdleRun EXCEPT !.pc = "archive", !.ts = 1]
                                      ELSE IdleRun]
    /\ packets = <<>>
    /\ parsed = <<>>

NextArchive ==
    \/ archiveLogsFind(1) /\ UNCHANGED <<cacheVars, seqVars, serveVars>>
    \/ archiveLogsStat(1) /\ UNCHANGED <<cacheVars, seqVars, serveVars>>
    \/ archiveLogsCreate(1) /\ UNCHANGED <<cacheVars, seqVars, serveVars>>
    \/ archiveLogsCopy(1) /\ UNCHANGED <<cacheVars, seqVars, serveVars>>
    \/ compressFileStat(1) /\ UNCHANGED <<cacheVars, seqVars, serveVars>>
    \/ compressFile(1) /\ UNCHANGED <<cacheVars, seqVars, serveVars>>
    \/ archiveLogsClean(1) /\ UNCHANGED <<cacheVars, seqVars, serveVars>>

SpecArchive == InitArchive /\ [][NextArchive]_vars

\* ------------------------------------------ specification: log rotation
\* Connections write access records while the hourly job rotates the log.
NextRotate ==
    \/ AccessLoggerPrintf /\ UNCHANGED <<cacheVars, seqVars, serveVars, packets, parsed>>
    \/ \E r \in Runs : accountingCron(r) /\ UNCHANGED <<cacheVars, seqVars, serveVars, packets, parsed>>
    \/ \E r \in Runs : accountingRename(r) /\ UNCHANGED <<cacheVars, seqVars, serveVars, packets, parsed>>
    \/ \E r \in Runs :
           setFileLoggerOutputOpen(r) /\ UNCHANGED <<cacheVars, seqVars, serveVars, packets, parsed>>
    \/ \E r \in Runs :
           setFileLoggerOutputPrev(r) /\ UNCHANGED <<cacheVars, seqVars, serveVars, packets, parsed>>
    \/ \E r \in Runs :
           setFileLoggerOutputSet(r) /\ UNCHANGED <<cacheVars, seqVars, serveVars, packets, parsed>>
    \/ \E r \in Runs :
           setFileLoggerOutputClose(r) /\ UNCHANGED <<cacheVars, seqVars, serveVars, packets, parsed>>
    \/ \E r \in Runs : accountingRest(r) /\ UNCHANGED <<cacheVars, seqVars, serveVars, packets, parsed>>
    \/ \E r \in Runs : accountingReturn(r) /\ UNCHANGED <<cacheVars, seqVars, serveVars, packets, parsed>>

SpecRotate == Init /\ [][NextRotate]_vars

\* ------------------------------------- specification: the whole pipeline
\* Connections write access records while cron starts the hourly job, each
\* run going through accounting() from the rename to the archival.  The n-th
\* tick starts the n-th goroutine, so the runs overlap when the first is slow.
\* conn.RemoteAddr() of the connection that writes the k-th record
RemoteAddr(k) == "127.0.0.1:" \o ToString(4000 + k)

\* request.DestAddr.String(): the destination rendered as host:port
AddrSpecString(d) == d.host \o ":" \o ToString(d.port)

\* the verb %d for the values of the samples
FormatInt(v) == CHOOSE t \in DOMAIN Decimal : Decimal[t] = v

\* the k-th record as log.Logger writes it: the date and the time of
\* log.LstdFlags, then "%s %s %s %s %d %d" with the remote address, the user
\* name, the RFC 3339 time, the destination and the two counters
RecordLine_noPrefix(k, u, d, r, w) ==
    Join(<<RemoteAddr(k), u, "2026-11-04T01:00:00Z", AddrSpecString(d),
           FormatInt(r), FormatInt(w)>>)

RecordLine(k, u, d, r, w) ==
    Join(<<"2026/11/04", "01:00:00", RemoteAddr(k), u,
           "2026-11-04T01:00:00Z", AddrSpecString(d), FormatInt(r), FormatInt(w)>>)

\* s.config.AccessLogger.Printf("%s %s %s %s %d %d", ...) at the end of
\* ServeConn: the formatted line, written through the logger's current output
ServeConnPrintf(u, d, r, w) ==
    /\ ~Exited
    /\ written < MaxLines
    /\ written' = written + 1
    /\ window' = Append(window,
                        IF \E q \in Runs : Reopening(q)
                        THEN run[CHOOSE q \in Runs : Reopening(q)].ts ELSE 0)
    /\ data' = IF handles[out].open
               THEN [data EXCEPT ![handles[out].inode] =
                         Append(@, RecordLine(written + 1, u, d, r, w))]
               ELSE data
    /\ UNCHANGED <<dir, handles, out, hour, run>>

NextPipe ==
    \/ \E u \in Users :
           /\ ServeConnPrintf(u, [host |-> "192.0.2.10", port |-> 80],
                              GoInt(0, 100), GoInt(0, 200))
           /\ UNCHANGED <<cacheVars, seqVars, serveVars, packets, parsed>>
    \/ \E r \in Runs :
           /\ r = hour + 1
           /\ accountingCron(r)
           /\ UNCHANGED <<cacheVars, seqVars, serveVars, packets, parsed>>
    \/ \E r \in Runs :
           accountingRename(r) /\ UNCHANGED <<cacheVars, seqVars, serveVars, packets, parsed>>
    \/ \E r \in Runs :
           setFileLoggerOutputOpen(r) /\ UNCHANGED <<cacheVars, seqVars, serveVars, packets, parsed>>
    \/ \E r \in Runs :
           setFileLoggerOutputPrev(r) /\ UNCHANGED <<cacheVars, seqVars, serveVars, packets, parsed>>
    \/ \E r \in Runs :
           setFileLoggerOutputSet(r) /\ UNCHANGED <<cacheVars, seqVars, serveVars, packets, parsed>>
    \/ \E r \in Runs :
           setFileLoggerOutputClose(r) /\ UNCHANGED <<cacheVars, seqVars, serveVars, packets, parsed>>
    \/ \E r \in Runs : accountingParse(r) /\ UNCHANGED <<cacheVars, seqVars, serveVars>>
    \/ \E r \in Runs : accountingRange(r) /\ UNCHANGED <<cacheVars, seqVars, serveVars>>
    \/ \E r \in Runs : sendAccountingDataStart(r) /\ UNCHANGED <<cacheVars, seqVars, serveVars>>
    \/ \E r \in Runs : sendAccountingDataStop(r) /\ UNCHANGED <<cacheVars, seqVars, serveVars>>
    \/ \E r \in Runs : accountingArchive(r) /\ UNCHANGED <<cacheVars, seqVars, serveVars>>
    \/ \E r \in Runs :
           accountingReturn(r) /\ UNCHANGED <<cacheVars, seqVars, serveVars, packets, parsed>>

SpecPipe == Init /\ [][NextPipe]_vars

\* ------------------------------------ specification: writer and parser
\* Connections of two users write their records, with sample destinations
\* and counters, through the access logger; one hourly run rotates the log
\* and parses the rotated file.  accessLog keeps what was handed to Printf.
LogUsers == {"alice", "bob"}

\* sample pairs of ReadBytes and WriteBytes: a zero, two small counts, 2^32
Counters == {<<GoInt(0, 0), GoInt(0, 100)>>, <<GoInt(0, 200), GoInt(0, 50)>>,
             <<GoInt(1, 0), GoInt(0, 100)>>}

ServeConnLogLine(u, d, r, w) ==
    /\ ServeConnPrintf(u, d, r, w)
    /\ accessLog' = Append(accessLog,
          [remote |-> RemoteAddr(written + 1), username |-> u, dest |-> d,
           read |-> r, write |-> w])
    /\ UNCHANGED <<authMethods, conn, serve>>

NextFormat ==
    \/ \E u \in LogUsers, n \in Counters,
          d \in {[host |-> "192.0.2.10", port |-> 80], [host |-> FqdnName, port |-> 443]} :
           ServeConnLogLine(u, d, n[1], n[2]) /\ UNCHANGED <<cacheVars, seqVars, packets, parsed>>
    \/ accountingCron(1) /\ UNCHANGED <<cacheVars, seqVars, serveVars, packets, parsed>>
    \/ accountingRename(1) /\ UNCHANGED <<cacheVars, seqVars, serveVars, packets, parsed>>
    \/ setFileLoggerOutputOpen(1) /\ UNCHANGED <<cacheVars, seqVars, serveVars, packets, parsed>>
    \/ setFileLoggerOutputPrev(1) /\ UNCHANGED <<cacheVars, seqVars, serveVars, packets, parsed>>
    \/ setFileLoggerOutputSet(1) /\ UNCHANGED <<cacheVars, seqVars, serveVars, packets, parsed>>
    \/ setFileLoggerOutputClose(1) /\ UNCHANGED <<cacheVars, seqVars, serveVars, packets, parsed>>
    \/ accountingParse(1) /\ UNCHANGED <<cacheVars, seqVars, serveVars>>

SpecFormat == Init /\ [][NextFormat]_vars

\* ------------------------------------------------- specification: main
\* main after the bootstrap: the cron scheduler runs the hourly job while
\* main is in server.ListenAndServe.  ListenAndServe returns only with an
\* error, and main answers it with log.Fatalf: os.Exit(1) ends the process
\* with every goroutine where it stands, and the deferred c.Stop() does not
\* run.
mainFatalf ==
    /\ serve.pc = "returned"
    /\ ~Exited
    /\ serve' = [serve EXCEPT !.pc = "exited"]
    /\ run' = [q \in Runs |-> [run[q] EXCEPT !.pc = "exit"]]
    /\ UNCHANGED <<authMethods, conn, accessLog>>
    /\ UNCHANGED <<dir, data, handles, out, written, window, hour>>

NextMain ==
    \/ NextRotate
    \/ ~Exited /\ ServeAcceptError /\ UNCHANGED <<seqVars, pipeVars>>
    \/ mainFatalf /\ UNCHANGED <<cacheVars, seqVars, packets, parsed>>

SpecMain == Init /\ [][NextMain]_vars

\* ================================================================ claims
Done(c) == call[c].pc = "done"

\* the age of the loaded item when Valid evaluated isExpired
Age(c) == call[c].tCheck - call[c].item.LastUsed

\* case (a) of the contract of Valid: a usable cached entry
FreshMatch(c) ==
    /\ call[c].ok
    /\ call[c].item.Password = call[c].password
    /\ Age(c) < Retention

ValidOutcome ==
    \A c \in Conns : Done(c) =>
        /\ call[c].result = (FreshMatch(c) \/ call[c].answer = "Accept")
        /\ FreshMatch(c) => ~call[c].sent /\ call[c].answer = ""
        /\ ~FreshMatch(c) => call[c].sent
        /\ call[c].result => call[c].wrote

\* the step on which a call turns out true stores (password, now)
TrueStoresNow ==
    \A c \in Conns :
        (~Done(c) /\ call'[c].pc = "done" /\ call'[c].result) =>
            /\ call[c].username \in DOMAIN cache'
            /\ cache'[call[c].username]
                   = [Password |-> call[c].password, LastUsed |-> now]

\* C1: Valid(u, p) returns true exactly when (a) the loaded entry has the
\* presented password and an age below retention, and then no Access-Request
\* is sent and the entry becomes (p, now), or (b) otherwise RADIUS answers
\* Access-Accept, and then the entry becomes (p, now); Reject, another code
\* or a transport error make it return false.
C1_ValidContract == [](ValidOutcome) /\ [][TrueStoresNow]_vars

C1_Witness ==
    /\ Done("c1") /\ FreshMatch("c1") /\ call["c1"].result
    /\ Done("c2") /\ ~FreshMatch("c2") /\ call["c2"].answer = "Accept"
    /\ call["c2"].ok

\* C2: an entry that is expired when Valid looks at it (age >= retention)
\* never validates by itself: the call returns true only if it sent an
\* Access-Request that was accepted; the same holds when the sweep has
\* removed the entry.
C2_ExpiredNeverValidates ==
    \A c \in Conns :
        (Done(c) /\ call[c].result /\ (~call[c].ok \/ Age(c) >= Retention))
            => call[c].sent /\ call[c].answer = "Accept"

C2_Witness ==
    \E c \in Conns :
        /\ Done(c) /\ call[c].result /\ call[c].ok
        /\ call[c].item.Password = call[c].password
        /\ Age(c) >= Retention

\* a call that ended without Access-Accept made no store
FailedCallWroteNothing ==
    \A c \in Conns :
        (Done(c) /\ call[c].answer \in {"Reject", "Challenge", "Error"})
            => ~call[c].wrote /\ ~call[c].result

\* the only steps of such a call (Load, the test, the exchange) leave the
\* cache as it is
FailingStepsKeepCache ==
    \A c \in Conns :
        (call'[c] # call[c] /\ call'[c].pc \in {"load", "check", "exchange"})
        \/ (call[c].pc = "exchange" /\ call'[c].pc = "done")
            => cache' = cache

\* C3: a Valid call that ends with Reject, another code or a transport error
\* leaves the cache exactly as it was: no entry created, password and
\* last_used of an existing entry unchanged.
C3_RejectLeavesCache == [](FailedCallWroteNothing) /\ [][FailingStepsKeepCache]_vars

C3_Witness ==
    \E c \in Conns :
        /\ Done(c) /\ call[c].answer = "Reject"
        /\ call[c].ok /\ call[c].username \in DOMAIN cache
        /\ cache[call[c].username] = call[c].item

\* C5: when the cached password differs from the presented one, an
\* Access-Request is always sent and the call returns true only on Accept.
C5_ChangedPasswordForcesRadius ==
    \A c \in Conns :
        (call[c].pc \in {"hit_store", "accept_store", "done"}
            /\ call[c].ok /\ call[c].item.Password # call[c].password)
            => /\ call[c].sent
               /\ call[c].result => call[c].answer = "Accept"

C5_Witness ==
    \E c \in Conns :
        /\ Done(c) /\ call[c].ok /\ call[c].item.Password # call[c].password
        /\ Age(c) < Retention /\ call[c].result

\* --- the sequential scenario
\* calls 1..i all presented the same password and RADIUS accepted it
Steady(i) ==
    \A j \in 1..i : hist[j].accepted /\ hist[j].password = hist[i].password

\* the time between call i and the call before it
Gap(i) == hist[i].t - hist[i-1].t

\* C4: retention is a sliding window.  While RADIUS accepts (u, p): the first
\* call sends an Access-Request; as long as every call comes less than
\* retention after the previous one no later call sends one, however long
\* ago the first call was (each hit resets last_used): calls at 0, T/2, T-1
\* send one request; a call retention or more after the previous one sends
\* a request again: calls at 0 and T+1 send two.
C4_SlidingWindow ==
    \A i \in 1..Len(hist) : Steady(i) =>
        /\ hist[i].result
        /\ i = 1 => hist[i].sent
        /\ (i > 1 /\ Gap(i) >= Retention) => hist[i].sent
        /\ (i > 1 /\ \A j \in 2..i : Gap(j) < Retention) => ~hist[i].sent

C4_Witness ==
    /\ Len(hist) = 3 /\ Steady(3)
    /\ hist[1].t = 0 /\ hist[2].t = Retention - 1 /\ hist[3].t >= Retention
    /\ hist[1].sent /\ ~hist[2].sent /\ ~hist[3].sent

\* C6 as claimed: once the server has stopped accepting (u, p_old), which
\* is no earlier than the user's last validation backed by the server,
\* Valid(u, p_old) is not true any more from retention after that moment on,
\* also under continuous calls.
C6_RevokedWithinRetention ==
    \A i \in 1..Len(hist) :
        (hist[i].result /\ ~hist[i].accepted)
            => hist[i].t < changedAt + Retention

\* C6 as amended: a Valid(u, p_old) that the server would not accept returns
\* true only less than retention after the previous successful
\* Valid(u, p_old); the old password stops working once the user stayed
\* away for retention, not under continuous calls.
C6_StaleOnlyWithinRetentionOfLastSuccess ==
    \A i \in 1..Len(hist) :
        (hist[i].result /\ ~hist[i].accepted) =>
            /\ ~hist[i].sent
            /\ \E j \in 1..(i-1) :
                  /\ hist[j].result
                  /\ hist[j].password = hist[i].password
                  /\ hist[i].t - hist[j].t < Retention

C6_Witness ==
    \E i \in 1..Len(hist) :
        /\ hist[i].result /\ ~hist[i].accepted
        /\ changedAt >= 0
        /\ hist[i].t >= changedAt + Retention

\* --- serving connections
Logged(c) == \E i \in 1..Len(accessLog) : accessLog[i].remote = c

\* the connection got as far as the request: NewRequest was called for it
PastAuth(c) ==
    \/ conn[c].pc \in {"request", "handle", "relay", "log"}
    \/ conn[c].hdr # NoHdr
    \/ conn[c].reply # NoReply
    \/ conn[c].dialed
    \/ Logged(c)

\* C7: built from main()'s Config (a credential store, no explicit methods)
\* the server supports USER/PASSWORD only, and ServeConn reads and handles a
\* request only after authenticate returned without error: no connection
\* gets to its request, a dial or an access record unless Valid returned true
\* for the credentials it presented.
C7_AuthBeforeRequest ==
    /\ authMethods = {2}
    /\ \A c \in Conns : PastAuth(c) =>
           /\ conn[c].method = 2
           /\ conn[c].validated
           /\ conn[c].authErr = ""

C7_Witness ==
    /\ conn["c1"].dialed /\ conn["c1"].validated
    /\ conn["c2"].pc = "closed" /\ conn["c2"].method = 2
    /\ ~conn["c2"].validated /\ conn["c2"].username # ""

\* the destinations inside GANTED_ACL = 4:10/1, 6:01/2
AllowedDestinations ==
    {[fam |-> 4, addr |-> 2], [fam |-> 4, addr |-> 3], [fam |-> 6, addr |-> 1]}

\* handleRequest has answered a CONNECT whose destination IP is known
ConnectAnswered(c) ==
    /\ conn[c].req.cmd = 1
    /\ conn[c].pc \in {"relay", "log", "closed"}
    /\ conn[c].ip # NoIP

\* C8: a CONNECT is allowed by the rule set iff its destination IP (the
\* resolved IP for a domain name) lies in a prefix of the ACL; outside the
\* ACL it is answered 0x02 and there is no upstream connection, no relay and
\* no access record.
C8_AclGatesConnect ==
    \A c \in Conns : ConnectAnswered(c) =>
        /\ (conn[c].reply = 2) = (conn[c].ip \notin AllowedDestinations)
        /\ conn[c].ip \notin AllowedDestinations =>
               ~conn[c].dialed /\ ~conn[c].relayed /\ ~Logged(c)
        /\ conn[c].dialed => conn[c].ip \in AllowedDestinations

C8_Witness ==
    /\ ConnectAnswered("c1") /\ conn["c1"].req.atyp = 3
    /\ conn["c1"].ip \notin AllowedDestinations /\ conn["c1"].reply = 2
    /\ ConnectAnswered("c2") /\ conn["c2"].ip.fam = 6 /\ Logged("c2")

BadAtyp(c) ==
    conn[c].hdr.readOk /\ conn[c].hdr.ver = 5 /\ conn[c].hdr.atyp \notin {1, 3, 4}

OtherParseError(c) ==
    conn[c].hdr # NoHdr /\ (~conn[c].hdr.readOk \/ conn[c].hdr.ver # 5)

\* C10: a request with an unknown address type is answered 0x08, any other
\* unparsable request is not answered; in both cases the connection ends
\* without the request being handled and without an access record.
C10_UnrecognizedAddrType ==
    \A c \in Conns :
        /\ BadAtyp(c) => conn[c].reply = 8
        /\ OtherParseError(c) => conn[c].reply = NoReply
        /\ (BadAtyp(c) \/ OtherParseError(c)) =>
               /\ conn[c].pc = "closed"
               /\ conn[c].req = NoReq
               /\ ~conn[c].dialed /\ ~conn[c].relayed /\ ~Logged(c)

C10_Witness ==
    /\ BadAtyp("c1") /\ conn["c1"].reply = 8
    /\ OtherParseError("c2") /\ conn["c2"].pc = "closed"

\* the number of access records of connection c
Records(c) == Cardinality({i \in 1..Len(accessLog) : accessLog[i].remote = c})

\* the session of c entered RELAY and has ended
RelayEnded(c) == conn[c].relayed /\ conn[c].pc = "closed"

\* ... because handleRequest returned the relay's error
RelayFailed(c) == RelayEnded(c) /\ conn[c].err = "failed to handle request"

\* C11 as claimed: every session that entered RELAY has exactly one access
\* record once it has ended, also when the relay ended by a failure.
C11_RelayAlwaysLogged ==
    \A c \in Conns : RelayEnded(c) => Records(c) = 1

\* C11 as amended: no session has more than one access record; a session
\* that entered RELAY has one once it has ended iff handleRequest returned
\* without error, none when the relay ended by a failure; a session that
\* never entered RELAY has none.
C11_OneRecordIffRelayEndedClean ==
    \A c \in Conns :
        /\ Records(c) <= 1
        /\ RelayEnded(c) => Records(c) = (IF RelayFailed(c) THEN 0 ELSE 1)
        /\ Records(c) = 1 => conn[c].relayed

C11_Witness ==
    /\ RelayEnded("c1") /\ ~RelayFailed("c1") /\ Records("c1") = 1
    /\ RelayFailed("c2") /\ Records("c2") = 0 /\ conn["c2"].up = 13

\* C21 as claimed: a session whose relay ended by an I/O error is closed and
\* has its access record, with the byte counts accumulated up to the failure.
C21_FailedRelayStillLogged ==
    \A c \in Conns :
        (conn[c].relayed /\ conn[c].err = "failed to handle request")
        => /\ conn[c].pc = "closed"
           /\ \E i \in 1..Len(accessLog) :
                 /\ accessLog[i].remote = c
                 /\ accessLog[i].read = conn[c].ReadBytes
                 /\ accessLog[i].write = conn[c].WriteBytes

\* C21 as amended: a session whose relay ended by an I/O error is closed and
\* no access record is written for it; the accumulated byte counts stay in
\* the wrapper and are reported nowhere.
C21_FailedRelayClosedUnlogged ==
    \A c \in Conns :
        (conn[c].relayed /\ conn[c].err = "failed to handle request")
        => /\ conn[c].pc = "closed"
           /\ \A i \in 1..Len(accessLog) : accessLog[i].remote # c

C21_Witness ==
    /\ RelayFailed("c1")
    /\ conn["c1"].up = 13 /\ conn["c1"].down = 27
    /\ conn["c1"].ReadBytes > 13 /\ conn["c1"].WriteBytes > 27
    /\ accessLog = <<>>

\* the ways ServeConn returns an error
ServeConnErrors ==
    {"version byte", "unsupported version", "failed to authenticate",
     "failed to read destination address", "failed to handle request"}

\* C22: an access record exists only for a connection whose handleRequest
\* returned without error; a connection that ended by a bad version byte, an
\* authentication failure, a request that could not be parsed, an ACL
\* denial, an unsupported command, a resolution or dial failure or an error
\* of the relay has none.
C22_RecordOnlyOnCleanReturn ==
    \A c \in Conns :
        /\ conn[c].err \in ServeConnErrors => Records(c) = 0
        /\ Records(c) > 0 =>
              /\ conn[c].pc = "closed" /\ conn[c].err = ""
              /\ conn[c].reply = successReply /\ conn[c].relayed

\* one connection was denied by the ACL, the other failed to authenticate,
\* and the access log is empty
C22_Witness ==
    /\ conn["c1"].pc = "closed" /\ conn["c1"].reply = ruleFailure
    /\ conn["c2"].pc = "closed" /\ conn["c2"].err = "failed to authenticate"
    /\ accessLog = <<>>

\* C12: the read-bytes and write-bytes of an access record are the R bytes the
\* relay moved from client to upstream and the W bytes it moved from upstream
\* to client, without the bytes of the greeting, the sub-negotiation, the
\* request or the reply.
C12_ByteCountersExact ==
    \A i \in 1..Len(accessLog) :
        /\ accessLog[i].read = conn[accessLog[i].remote].up
        /\ accessLog[i].write = conn[accessLog[i].remote].down


\* the places (file, line number) where record k stands in the log directory
Places(k) ==
    {p \in UNION {{<<f, i>> : i \in 1..Len(FileLines(f))} : f \in DOMAIN dir} :
        FileLines(p[1])[p[2]] = k}

\* one rotation has been made and the logger is reopened
OneRotationDone ==
    /\ hour = 1
    /\ \A r \in Runs : run[r].pc \in {"idle", "close", "parse", "return"}
    /\ Rotated(1) \in DOMAIN dir

\* C13: with connections writing access records while the log is rotated
\* (rename, then reopen), every record written stands exactly once in exactly
\* one file; after one rotation the lines of the rotated file plus those of the
\* new access.log are the records written.
C13_RotationKeepsEveryRecord ==
    /\ \A k \in 1..written : Cardinality(Places(k)) = 1
    /\ OneRotationDone =>
           /\ DOMAIN dir = {Rotated(1), LiveLog}
           /\ Len(FileLines(Rotated(1))) + Len(FileLines(LiveLog)) = written

C13_Witness ==
    /\ OneRotationDone
    /\ Len(FileLines(Rotated(1))) >= 1
    /\ Len(FileLines(LiveLog)) >= 2

C26_ProcessSurvivesFailures == ~Exited

\* C19: at most one invocation of accounting() is in progress at any time.
C19_RunsNeverOverlap ==
    Cardinality({r \in Runs : run[r].pc # "idle"}) <= 1

\* --- parseLogFile
\* a line that parseLogFile counts: exactly 8 fields, of which the 7th and
\* the 8th are integers
Counted(line) ==
    /\ Len(Fields(line)) = 8
    /\ Atoi(Fields(line)[7]).ok
    /\ Atoi(Fields(line)[8]).ok

LineTotal(line) == AddInt(Atoi(Fields(line)[7]).val, Atoi(Fields(line)[8]).val)

\* the counted lines of a file that carry the user name u
LinesOf(lines, u) ==
    {i \in 1..Len(lines) : Counted(lines[i]) /\ Fields(lines[i])[4] = u}

RECURSIVE SumLines(_, _)
SumLines(lines, I) ==
    IF I = {} THEN GoInt(0, 0)
    ELSE LET i == CHOOSE k \in I : TRUE
         IN AddInt(LineTotal(lines[i]), SumLines(lines, I \ {i}))

UserTotal(lines, u) == SumLines(lines, LinesOf(lines, u))

UserNames(lines) ==
    {Fields(lines[i])[4] : i \in {k \in 1..Len(lines) : Counted(lines[k])}}

\* the run has the map parseLogFile returned
Parsed(r) ==
    /\ run[r].pc \in {"range", "start", "stop", "archive", "return"}
    /\ run[r].err = ""

\* C14: parseLogFile returns, for each user name of a counted line, the sum
\* of read_bytes + write_bytes over all the lines of the file that split into
\* exactly 8 fields whose 7th and 8th are integers and whose 4th is that
\* name; every other line is skipped and the lines behind it still count.
C14_ParseSumsCountedLines ==
    \A r \in Runs :
        Parsed(r) =>
            LET lines == FileLines(Rotated(run[r].ts))
            IN /\ DOMAIN run[r].stats = UserNames(lines)
               /\ \A u \in UserNames(lines) :
                     run[r].stats[u] = UserTotal(lines, u)

\* a file whose first line is skipped and whose second line is counted has
\* been parsed
C14_Witness ==
    /\ Parsed(1)
    /\ Len(FileLines(Rotated(1))) = 2
    /\ ~Counted(FileLines(Rotated(1))[1])
    /\ Counted(FileLines(Rotated(1))[2])
    /\ run[1].stats # <<>>

\* --- accounting emission
\* C15: the Acct-Output-Octets of every Stop packet equals the total derived
\* for its user, whatever the total, 2^32 and more included.
C15_StopOctetsEqualTotal ==
    \A j \in 1..Len(packets) :
        packets[j].status = "Stop" =>
            GoInt(0, packets[j].octets)
                = UserTotal(FileLines(Rotated(1)), packets[j].user)

\* C16: a Stop packet is sent only right behind the Start packet of the same
\* user and the same session id, and only when that Start was answered by
\* an Accounting-Response.
C16_StopFollowsAnsweredStart ==
    \A j \in 1..Len(packets) :
        packets[j].status = "Stop" =>
            /\ j > 1
            /\ packets[j - 1].status = "Start"
            /\ packets[j - 1].user = packets[j].user
            /\ packets[j - 1].session = packets[j].session
            /\ packets[j - 1].answer = "Response"

\* one user got Start and Stop while the clock moved on in between, another
\* user's Start was not answered by an Accounting-Response
C16_Witness ==
    /\ \E j \in 1..Len(packets) :
          packets[j].status = "Stop" /\ packets[j].session < now
    /\ \E i \in 1..Len(packets) :
          packets[i].status = "Start" /\ packets[i].answer # "Response"
    /\ run[1].pc = "archive"

\* the Start packets sent for the user u
Starts(u) ==
    {i \in 1..Len(packets) : packets[i].status = "Start" /\ packets[i].user = u}

\* C24: whatever the exchanges of a run answer, the run reaches archival,
\* and when it does sendAccountingData has been invoked exactly once for
\* every user of the aggregate; a failed Start or Stop of one user ends
\* neither the loop nor the run.
C24_FailedExchangeDoesNotAbort ==
    \A r \in Runs :
        /\ (Parsed(r) /\ run[r].pc = "return") => run[r].archived
        /\ run[r].pc \in {"archive", "return"} =>
              \A u \in DOMAIN run[r].stats : Cardinality(Starts(u)) = 1

\* the Start of the first user failed, the Stop of the second was not
\* answered by an Accounting-Response, and the run is at archival
C24_Witness ==
    /\ run[1].pc = "archive"
    /\ Len(packets) = 3
    /\ packets[1].status = "Start" /\ packets[1].answer = "Error"
    /\ packets[2].status = "Start" /\ packets[2].user # packets[1].user
    /\ packets[3].status = "Stop" /\ packets[3].answer = "Other"

\* --- archiveLogs
\* archiveLogs has returned in run r
Archived_done(r) == run[r].pc = "return" /\ run[r].before # <<>>

\* the log directory and the content of its files are as archiveLogs found them
Untouched(r) ==
    /\ dir = run[r].before.dir
    /\ \A f \in DOMAIN dir : data[dir[f]] = run[r].before.data[dir[f]]

\* the errors of a file operation that failed under archiveLogs
IOErrors == {"open", "copy", "compress"}

RECURSIVE Concat(_, _)
Concat(names, d) ==
    IF names = <<>> THEN <<>>
    ELSE d.data[d.dir[Head(names)]] \o Concat(Tail(names), d)

\* C17: with at least maxBackup rotated logs and an archive .zst of the
\* current date in place, archiveLogs returns an error and leaves every
\* file as it was: no intermediate file created or emptied, no log removed.
C17_ExistingArchiveBlocks ==
    \A r \in Runs :
        (/\ Archived_done(r)
         /\ Len(run[r].logFiles) >= maxBackup
         /\ ArchivedZst(Date(hour)) \in DOMAIN run[r].before.dir)
        => (run[r].err # "" /\ Untouched(r))

C17_Witness ==
    /\ Archived_done(1)
    /\ Len(run[1].logFiles) > maxBackup
    /\ ArchivedZst(Date(hour)) \in DOMAIN run[1].before.dir
    /\ Archived(Date(hour)) \in DOMAIN dir
    /\ run[1].err = "file exists"

\* C18: with at least maxBackup rotated logs and no archive of the current
\* date, and every file operation succeeding, archiveLogs ends with the .zst holding the compressed concatenation
\* of the logs in ascending name order, the intermediate file gone, the logs
\* deleted and no error.
C18_ArchiveSucceeds ==
    \A r \in Runs :
        (/\ Archived_done(r)
         /\ Len(run[r].logFiles) >= maxBackup
         /\ ArchivedZst(Date(hour)) \notin DOMAIN run[r].before.dir
         /\ run[r].err \notin IOErrors)
        => (/\ ArchivedZst(Date(hour)) \in DOMAIN dir
            /\ Head(FileLines(ArchivedZst(Date(hour)))) = ZstdMagic
            /\ Decompress(FileLines(ArchivedZst(Date(hour))))
                  = Concat(run[r].logFiles, run[r].before)
            /\ Archived(Date(hour)) \notin DOMAIN dir
            /\ \A i \in 1..Len(run[r].logFiles) :
                  run[r].logFiles[i] \notin DOMAIN dir
            /\ run[r].err = "")

\* C20: with fewer than maxBackup rotated logs archiveLogs returns success
\* and leaves every file as it was.
C20_BelowThresholdNoChange ==
    \A r \in Runs :
        (Archived_done(r) /\ Len(run[r].logFiles) < maxBackup)
        => (run[r].err = "" /\ Untouched(r))

C20_Witness ==
    /\ Archived_done(1)
    /\ Len(run[1].logFiles) = maxBackup - 1
    /\ ArchivedZst(Date(hour)) \notin DOMAIN dir
    /\ run[1].err = ""

\* --- the sweeper
\* C28: whenever the sweeper deletes an entry, the entry it removes is
\* expired at that moment (now - LastUsed >= Retention); an entry stored or
\* refreshed by a concurrent Valid is not removed.
C28_SweepDeletesOnlyExpired ==
    [][(gc.pc = "delete" /\ gc'.pc = "range" /\ gc.key \in DOMAIN cache)
          => isExpired(cache[gc.key], now)]_vars

\* the entry of u is in the cache and its age has reached the retention
Stale(u) == u \in DOMAIN cache /\ isExpired(cache[u], now)

\* C29: the sweeper keeps running, and an entry whose age has reached the
\* retention does not stay: a sweep removes it, unless a new validation
\* replaces it by a fresh one first.
C29_ExpiredEntryEventuallyRemoved ==
    \A u \in Users : Stale(u) ~> ~Stale(u)

\* the sweeper, with no Valid call in progress, is about to delete an
\* expired entry
C29_Witness ==
    /\ gc.pc = "delete"
    /\ Stale(gc.key)
    /\ \A c \in Conns : call[c].pc = "idle"

\* --- ConnWrapper
\* what a call in progress has got from the net.Conn and not yet added
Pending(n) == IF n = NoCall THEN 0 ELSE n

\* C30: the counters of every ConnWrapper start at 0 and never decrease;
\* ReadBytes is the sum of the byte counts the Read calls of the embedded
\* net.Conn returned and WriteBytes the sum of those its Write calls
\* returned, each up to the count of a call still in progress; a Read does
\* not change WriteBytes and a Write does not change ReadBytes.
C30_CountersAreSums ==
    \A c \in Conns :
        /\ conn[c].ReadBytes >= 0 /\ conn[c].WriteBytes >= 0
        /\ conn[c].ReadBytes + Pending(conn[c].rd) = conn[c].connRead
        /\ conn[c].WriteBytes + Pending(conn[c].wr) = conn[c].connWritten

\* a wrapper has counted two reads and a write of its two halves, with
\* different sums, and no call is in progress
C30_Witness ==
    /\ conn["c1"].calls = 3
    /\ conn["c1"].rd = NoCall /\ conn["c1"].wr = NoCall
    /\ conn["c1"].ReadBytes = 3 /\ conn["c1"].WriteBytes = 2
    /\ conn["c2"].wr # NoCall

\* --- Server.Serve
\* C27: Serve returns only with the error of Accept; a connection that ends,
\* with an error or without, changes neither Serve nor another connection,
\* and connections are accepted and served after an earlier one has failed.
C27_ServeOutlivesConnErrors ==
    /\ [](serve.pc = "returned" => serve.err = "accept")
    /\ [][\A c \in Conns :
             (conn[c].pc # "closed" /\ conn'[c].pc = "closed")
             => /\ serve' = serve
                /\ \A d \in Conns \ {c} : conn'[d] = conn[d]]_vars

\* a connection accepted after another one had failed has been served to its
\* access record, and Serve is still accepting
C27_Witness ==
    /\ serve.pc = "accept"
    /\ \E c \in Conns :
          /\ conn[c].afterErr
          /\ conn[c].pc = "closed" /\ conn[c].err = ""
          /\ Records(c) = 1

\* --- archiveLogs, failures
\* C25: when archiveLogs returns an error after it has created the
\* intermediate file, that file does not exist any more and every rotated
\* log is still there with its content.
C25_FailureLeavesNoIntermediate ==
    \A r \in Runs :
        (Archived_done(r) /\ run[r].k >= 1 /\ run[r].err # "")
        => /\ Archived(Date(hour)) \notin DOMAIN dir
           /\ \A i \in 1..Len(run[r].logFiles) :
                 /\ run[r].logFiles[i] \in DOMAIN dir
                 /\ FileLines(run[r].logFiles[i])
                       = run[r].before.data[run[r].before.dir[run[r].logFiles[i]]]

\* a pipeline run is under way
InProgress(r) == run[r].pc \notin {"idle", "exit"}

\* C31: when the process shuts down, a pipeline run in progress has run to
\* completion before the process exits: main never ends the process while a
\* run is under way.
C31_ShutdownWaitsForRun ==
    [][(serve.pc = "returned" /\ serve'.pc = "exited")
          => \A r \in Runs : ~InProgress(r)]_vars

\* --- the order of the steps of accounting()
\* the packets the run started at tick ts has sent
SentBy(ts) == {j \in 1..Len(packets) : packets[j].ts = ts}

\* run r has not come to the emission: it is at the rename, in
\* setFileLoggerOutput or at parseLogFile, or one of them has ended it
BeforeEmission(r) ==
    \/ run[r].pc \in {"rename", "open", "prev", "set", "close", "parse"}
    \/ run[r].pc = "return" /\ run[r].err \in {"rename", "parse"}

\* the emission of run r is over: every identity of its stats has had its
\* Start packet, and its Stop packet where the Start was answered
EmissionDone(r) ==
    /\ run[r].todo = {}
    /\ \A u \in DOMAIN run[r].stats :
          \E j \in SentBy(run[r].ts) :
             /\ packets[j].user = u
             /\ packets[j].status = "Start"
             /\ (packets[j].answer = "Response"
                   => \E i \in SentBy(run[r].ts) :
                         i > j /\ packets[i].user = u /\ packets[i].status = "Stop")

\* the steps of one run, in the order of accounting()
StepOrder ==
    {<<"idle", "rename">>, <<"rename", "open">>, <<"open", "prev">>,
     <<"prev", "set">>, <<"set", "close">>, <<"close", "parse">>,
     <<"parse", "range">>, <<"range", "start">>, <<"start", "stop">>,
     <<"start", "range">>, <<"stop", "range">>, <<"range", "archive">>,
     <<"archive", "return">>, <<"rename", "return">>, <<"parse", "return">>,
     <<"return", "idle">>}

\* C32: each run of accounting() renames the live log, reopens the logger,
\* parses the rotated file, emits accounting for every user and only then
\* archives: archival never begins before the emission of the same run is
\* over, and a run that the rename, the reopen or parseLogFile has ended has
\* sent no accounting packet.
C32_StepsInOrder ==
    /\ [](\A r \in Runs :
            /\ BeforeEmission(r) => SentBy(run[r].ts) = {}
            /\ (run[r].pc = "archive" \/ run[r].archived) => EmissionDone(r))
    /\ [][\A r \in Runs :
            run'[r].pc # run[r].pc =>
                \/ <<run[r].pc, run'[r].pc>> \in StepOrder
                \/ run'[r].pc = "exit" /\ \E q \in Runs : run[q].pc = "open"]_vars

\* a run has gone through all five steps, with a record to account for, and
\* another run has been ended by its rename
C32_Witness ==
    /\ run[1].archived
    /\ run[1].stats # <<>>
    /\ Len(packets) >= 2
    /\ run[2].pc = "return" /\ run[2].err = "rename"

\* --- the entries of the cache
\* the call c that wrote the entry of u in this step, returning true: on the
\* Access-Accept of its own exchange, or on the hit of the entry it had
\* loaded, unexpired and with the password presented
WroteEntry(c, u) ==
    /\ call[c].username = u
    /\ cache'[u] = RadiusCacheItem(call[c].password, now)
    /\ call'[c].pc = "done" /\ call'[c].result
    /\ \/ /\ call[c].pc = "accept_store"
          /\ call[c].sent /\ IsAccept(call[c].answer)
       \/ /\ call[c].pc = "hit_store"
          /\ ~call[c].sent
          /\ call[c].ok
          /\ call[c].item.Password = call[c].password
          /\ ~isExpired(call[c].item, call[c].tCheck)

\* C33: the cache holds one entry per username, every entry was written by
\* a Valid call for its username and password that returned true (on an
\* Access-Accept of that call or on a hit of an unexpired entry with the same
\* password), and no entry holds a pair that RADIUS never accepted.
C33_EntriesWereValidated ==
    /\ [](/\ DOMAIN cache \subseteq Users
          /\ \A u \in DOMAIN cache : WasAccepted(u, cache[u].Password))
    /\ [][\A u \in DOMAIN cache' :
            (u \notin DOMAIN cache \/ cache'[u] # cache[u])
               => \E c \in Conns : WroteEntry(c, u)]_vars

\* an entry with a password that RADIUS accepted earlier and accepts no
\* longer, refreshed by a hit
C33_Witness ==
    /\ "alice" \in DOMAIN cache
    /\ cache["alice"].Password # radiusPw["alice"]
    /\ cache["alice"].LastUsed > 0
    /\ \E c \in Conns : call[c].pc = "done" /\ call[c].wrote /\ ~call[c].sent

\* C35: a cache-hit refresh never changes the password stored for the user:
\* when a hit for p1 interleaves with a Valid(u, p2) that RADIUS accepted,
\* the stored entry (u, p2) is not replaced with (u, p1).
C35_HitNeverReplacesNewerPassword ==
    [][\A c \in Conns :
          (/\ call[c].pc = "hit_store"
           /\ call'[c].pc = "done"
           /\ call[c].username \in DOMAIN cache)
          => cache'[call[c].username].Password
                = cache[call[c].username].Password]_vars

\* --- the logger's lock
\* C34: writes of access records and the switch of the logger's output
\* exclude each other: every record goes to the output the logger has at the
\* time, never to the handle a finished switch has replaced; a handle is
\* closed only when the logger's output has been switched away from it, so
\* no write targets a closed handle.
C34_WritesAndReopenExclusive ==
    /\ [](/\ handles[out].open
          /\ \A r \in Runs : run[r].pc = "close" => out # run[r].prev)
    /\ [][/\ written' # written
               => /\ handles[out].open
                  /\ data'[handles[out].inode]
                        = Append(data[handles[out].inode], written')
           /\ \A h \in DOMAIN handles :
                 (handles[h].open /\ ~handles'[h].open) => out # h]_vars

\* a rotation is through its reopen: the previous handle is closed, with a
\* record written through it before the switch, and a record has gone to the
\* new output since
C34_Witness ==
    \E r \in Runs :
        /\ run[r].pc = "parse"
        /\ out = run[r].file
        /\ ~handles[run[r].prev].open
        /\ Len(data[handles[run[r].prev].inode]) >= 1
        /\ Len(data[handles[out].inode]) >= 1

\* --- records and runs
\* the places (run, line number) where parseLogFile has read the k-th record
ReadAt(k) ==
    {p \in UNION {{<<i, j>> : j \in 1..Len(parsed[i].lines)} :
                      i \in 1..Len(parsed)} :
        Fields(parsed[p[1]].lines[p[2]])[3] = RemoteAddr(k)}

\* the Stop packets sent for the user u
Stops(u) ==
    {j \in 1..Len(packets) : packets[j].status = "Stop" /\ packets[j].user = u}

\* C36: over the runs of the pipeline each access record is counted by at
\* most one run: a rotated log is parsed once, by the run that created it,
\* and every Stop packet reports the total of the file its own run parsed,
\* once per run and user; bytes of a failed exchange or of a failed run are
\* not sent again by a later run.
C36_RecordCountedOnce ==
    /\ \A k \in 1..written : Cardinality(ReadAt(k)) <= 1
    /\ \A i, j \in 1..Len(parsed) : i # j => parsed[i].ts # parsed[j].ts
    /\ \A u \in Users :
          \A a \in Stops(u) :
             /\ \A b \in Stops(u) : a # b => packets[a].ts # packets[b].ts
             /\ \E i \in 1..Len(parsed) :
                   /\ parsed[i].ts = packets[a].ts
                   /\ packets[a].octets
                         = AcctOutputOctets(UserTotal(parsed[i].lines, u))

\* two runs have parsed a record each; the exchange of the first failed and
\* the second has sent its Stop packet
C36_Witness ==
    /\ Len(parsed) = 2
    /\ \A i \in 1..2 : Len(parsed[i].lines) >= 1
    /\ \E j \in 1..Len(packets) :
          /\ packets[j].ts = parsed[1].ts
          /\ packets[j].status = "Start"
          /\ packets[j].answer # "Response"
    /\ \E j \in 1..Len(packets) :
          packets[j].ts = parsed[2].ts /\ packets[j].status = "Stop"

\* --- archiveLogs, pruning
\* C37: each rotated log goes into at most one compressed archive: after an
\* archival that produced a .zst archive, fewer than maxBackup rotated logs
\* access-<timestamp>.log are left in the log directory, so that no later
\* archival takes them up again.
C37_ArchivalPrunesRotatedLogs ==
    \A r \in Runs :
        (/\ Archived_done(r)
         /\ ArchivedZst(Date(hour)) \notin DOMAIN run[r].before.dir
         /\ ArchivedZst(Date(hour)) \in DOMAIN dir
         /\ run[r].err \notin IOErrors)
        => Len(findLogs) < maxBackup

\* --- the record layout
\* the line of the k-th record handed to the access logger
LineOf(k) ==
    RecordLine(k, accessLog[k].username, accessLog[k].dest,
               accessLog[k].read, accessLog[k].write)

\* the records of the user u whose lines stand in the file
RecordsIn(lines, u) ==
    {k \in 1..Len(accessLog) :
        /\ accessLog[k].username = u
        /\ \E j \in 1..Len(lines) : lines[j] = LineOf(k)}

RECURSIVE SumRecords(_)
SumRecords(K) ==
    IF K = {} THEN GoInt(0, 0)
    ELSE LET k == CHOOSE x \in K : TRUE
         IN AddInt(AddInt(accessLog[k].read, accessLog[k].write),
                   SumRecords(K \ {k}))

====
